---- MODULE Spec2Model ----
(***************************************************************************)
(* A model of zugzwang: the content-addressed build cache of the chess      *)
(* puzzle video pipeline (Narration, Position, Scene, PuzzleVideo).         *)
(*                                                                          *)
(* Strings are sequences of one-character strings.  A sha256 hex digest is  *)
(* the record [sha256 |-> key]: the digest is treated as collision-free,    *)
(* so it is injective in its key and carries nothing else.                  *)
(***************************************************************************)
EXTENDS Integers, Sequences, FiniteSets, TLC

VARIABLES
    narrations,   \* the Narration objects constructed so far (a sequence)
    audioFiles,   \* the .mp3 files present under data/narrations
    synthLog,     \* calls of generate_audio_from_text, in order
    genLog,       \* calls of Narration.generate(), in order, with the audio_path each computed
    board,        \* the one chess.Board the puzzle script narrates on
    scopes,       \* the Position objects whose with-block is open, in entry order
    exc,          \* the exception propagating in the script, or "none"
    lastExit,     \* the Position.__exit__ call the last step made, if it made one
    videos,       \* two PuzzleVideo objects whose scene lists the caller edits
    lastOp,       \* the edit of a scene list the last step made, and its effect on the hash
    video,        \* the PuzzleVideo object the puzzle script is building
    phase,        \* where the script is: "building" the scene list, "generated", or "raised"
    constructed,  \* how many PuzzleVideo objects the script has constructed
    imageFiles,   \* the .png files of the output directory: path -> content
    videoFiles,   \* the .mp4 files of the output directory: path -> content
    failedRuns,   \* how many PuzzleVideo.generate() calls raised
    completed,    \* the constructions whose generate() returned, with their cache paths
    last,         \* the PuzzleVideo.generate() call the last step made, if it made one
    lastScene,    \* the Scene.generate() call the last step made, if it made one
    rasterized,   \* the image keys the rasterizer was called for
    rasterRepeated, \* the rasterizer was called for a key it had been called for
    shots,        \* the Scenes the script has constructed from its board and arrow list
    annotations,  \* the list of arrows the script passes to its Scenes
    procs,        \* two processes running generate(): where each is and what it saw
    raceLog,      \* the collaborator calls of the two processes, in order
    position,     \* the board the caller of the annotation generators has set up
    lastCall,     \* the annotation generator call the last step made, if it made one
    lastPgn,      \* the StyledArrow.pgn() call the last step made, if it made one
    lastDifficulty, \* the read of Puzzle.difficulty the last step made, if it made one
    lastOrientation, \* the read of Puzzle.orientation the last step made, if it made one
    lastMix       \* the composition of a final video the last step made, if it made one

narrVars == <<narrations, audioFiles, synthLog, genLog>>
posVars == <<board, scopes, exc, lastExit>>
hashVars == <<videos, lastOp>>
shotVars == <<shots, annotations>>
raceVars == <<procs, raceLog>>
annotVars == <<position, lastCall>>
pgnVars == <<lastPgn>>
puzzleVars == <<lastDifficulty, lastOrientation>>
mixVars == <<lastMix>>
sceneVars == <<lastScene, rasterized, rasterRepeated>>
pipeVars == <<video, phase, constructed, imageFiles, videoFiles, failedRuns, completed, last>>

vars == <<narrVars, posVars, hashVars, pipeVars, sceneVars, shotVars, raceVars, annotVars, pgnVars, puzzleVars, mixVars>>

(***************************************************************************)
(* Bounds                                                                   *)
(***************************************************************************)
MaxNarrations == 2
MaxNarrCalls == 3
MaxDepth == 3         \* moves on the board's move stack
MaxScopes == 2        \* Position scopes open at a time
MaxScenes == 2        \* scenes of a PuzzleVideo
MaxConstructions == 2 \* PuzzleVideo objects the script constructs
MaxFailedRuns == 1    \* calls of PuzzleVideo.generate() that raise
MaxShots == 1         \* Scenes the script constructs from its board
MaxArrows == 2        \* arrows in the script's list
MaxLimit == 2         \* the max_arrows argument of show_attacks
MaxDuration == 4      \* the duration of a scene clip and of the background music

(***************************************************************************)
(* Strings                                                                  *)
(***************************************************************************)
Whitespace == {" ", "\n"}

RECURSIVE lstrip(_)
lstrip(s) ==
    IF s = <<>> THEN <<>>
    ELSE IF Head(s) \in Whitespace THEN lstrip(Tail(s)) ELSE s

RECURSIVE rstrip(_)
rstrip(s) ==
    IF s = <<>> THEN <<>>
    ELSE IF s[Len(s)] \in Whitespace THEN rstrip(SubSeq(s, 1, Len(s) - 1)) ELSE s

\* the fields of s from its first character on, cur being the field begun
RECURSIVE Fields(_, _)
Fields(s, cur) ==
    IF s = <<>> THEN (IF cur = <<>> THEN <<>> ELSE <<cur>>)
    ELSE IF Head(s) \in Whitespace
         THEN (IF cur = <<>> THEN <<>> ELSE <<cur>>) \o Fields(Tail(s), <<>>)
    ELSE Fields(Tail(s), Append(cur, Head(s)))

\* str.split(): the maximal runs of characters that are not whitespace
split(s) == Fields(s, <<>>)

\* str.split("\n"): the lines of s, at least one
RECURSIVE SplitLines(_, _)
SplitLines(s, cur) ==
    IF s = <<>> THEN <<cur>>
    ELSE IF Head(s) = "\n" THEN <<cur>> \o SplitLines(Tail(s), <<>>)
    ELSE SplitLines(Tail(s), Append(cur, Head(s)))

\* "\n".join(lines)
RECURSIVE JoinLines(_)
JoinLines(lines) ==
    IF lines = <<>> THEN <<>>
    ELSE IF Len(lines) = 1 THEN lines[1]
    ELSE lines[1] \o <<"\n">> \o JoinLines(Tail(lines))

RECURSIVE DropLeadingEmpty(_)
DropLeadingEmpty(lines) ==
    IF lines # <<>> /\ Head(lines) = <<>> THEN DropLeadingEmpty(Tail(lines)) ELSE lines

RECURSIVE DropTrailingEmpty(_)
DropTrailingEmpty(lines) ==
    IF lines # <<>> /\ lines[Len(lines)] = <<>>
    THEN DropTrailingEmpty(SubSeq(lines, 1, Len(lines) - 1))
    ELSE lines

\* inspect.cleandoc: the first line loses its leading whitespace, the others
\* lose the smallest indentation of a non-blank line among them, and leading
\* and trailing empty lines go.
cleandoc(doc) ==
    LET lines == SplitLines(doc, <<>>)
        rest == {i \in 2..Len(lines) : lstrip(lines[i]) # <<>>}
        indent(i) == Len(lines[i]) - Len(lstrip(lines[i]))
        hasMargin == rest # {}
        margin == IF hasMargin
                  THEN CHOOSE m \in {indent(i) : i \in rest} :
                           \A i \in rest : m <= indent(i)
                  ELSE 0
        cut(l) == IF margin >= Len(l) THEN <<>> ELSE SubSeq(l, margin + 1, Len(l))
        out == [i \in 1..Len(lines) |->
                   IF i = 1 THEN lstrip(lines[1])
                   ELSE IF hasMargin THEN cut(lines[i]) ELSE lines[i]]
    IN JoinLines(DropLeadingEmpty(DropTrailingEmpty(out)))

(***************************************************************************)
(* Digests and paths                                                        *)
(***************************************************************************)
sha256(key) == [sha256 |-> key]

narrations_dir == <<"data", "narrations">>

\* os.path.join(dir..., f"{name}{ext}")
PathJoin(dir, name, ext) == [dir |-> dir, name |-> name, ext |-> ext]

(***************************************************************************)
(* Narration                                                                *)
(***************************************************************************)
RawTexts == { <<"a">>, <<" ", "a">>, <<"a", "\n">>, <<"b">>,
              <<"a", "\n", " ", "b">> }
Voices == {"voiceA", "voiceB"}

\* Narration.__init__
Narration(text, voice_id) ==
    [text |-> cleandoc(lstrip(rstrip(text))), voice_id |-> voice_id]

audio_hash(n) == sha256(n.text)

\* a changed path: the file name also carries the number of calls made so far
audio_path_Stamped(n) ==
    PathJoin(narrations_dir \o <<n.voice_id>>,
             sha256(n.text \o <<ToString(Len(genLog))>>), ".mp3")

audio_path(n) == PathJoin(narrations_dir \o <<n.voice_id>>, audio_hash(n), ".mp3")

\* os.path.exists on the narration cache
AudioExists(files, path) == path \in files

\* a changed guard: synthesize on every call
NeedsSynthesis_Always(n, files) == TRUE

\* the guard of Narration.generate: synthesize only when no file is cached
NeedsSynthesis(n, files) == ~AudioExists(files, audio_path(n))

\* The speech synthesis writes the audio file to its target path, or raises
\* and writes nothing.
generate_audio_from_text(files, path, ok) == IF ok THEN files \cup {path} ELSE files

\* The files and the call log after Narration.generate() on n, where ok says
\* whether generate_audio_from_text succeeds or raises.
NarrationGenerateFiles(n, files, ok) ==
    IF NeedsSynthesis(n, files) THEN generate_audio_from_text(files, audio_path(n), ok) ELSE files

NarrationGenerateLog(n, files, log, ok) ==
    IF NeedsSynthesis(n, files)
    THEN Append(log, [text |-> n.text, path |-> audio_path(n),
                      voice_id |-> n.voice_id, ok |-> ok])
    ELSE log

NewNarration(text, voice_id) ==
    /\ Len(narrations) < MaxNarrations
    /\ narrations' = Append(narrations, Narration(text, voice_id))
    /\ UNCHANGED <<audioFiles, synthLog, genLog>>
    /\ UNCHANGED <<posVars, hashVars, pipeVars, sceneVars, shotVars, raceVars, annotVars, pgnVars, puzzleVars, mixVars>>

\* Narration.generate() on object i; ok: whether the synthesis, if invoked, succeeds
NarrationGenerate(i, ok) ==
    /\ Len(genLog) < MaxNarrCalls
    /\ LET n == narrations[i] IN
        /\ audioFiles' = NarrationGenerateFiles(n, audioFiles, ok)
        /\ synthLog' = NarrationGenerateLog(n, audioFiles, synthLog, ok)
        /\ genLog' = Append(genLog, [obj |-> i, text |-> n.text, voice_id |-> n.voice_id,
                                     path |-> audio_path(n),
                                     cached |-> AudioExists(audioFiles, audio_path(n))])
    /\ UNCHANGED narrations
    /\ UNCHANGED <<posVars, hashVars, pipeVars, sceneVars, shotVars, raceVars, annotVars, pgnVars, puzzleVars, mixVars>>

(***************************************************************************)
(* chess.Board, as far as the pipeline uses it: legality-free push and pop  *)
(* and the position notation.                                               *)
(***************************************************************************)
WHITE == TRUE
BLACK == FALSE

\* squares by index: a1 = 0, b1 = 1, ..., h8 = 63
SquareAt(file_index, rank_index) == rank_index * 8 + file_index
A1 == SquareAt(0, 0)
B1 == SquareAt(1, 0)
C1 == SquareAt(2, 0)
D1 == SquareAt(3, 0)
C2 == SquareAt(2, 1)

Move(from_square, to_square) == [from_square |-> from_square, to_square |-> to_square]

\* the moves the script plays
Moves == { Move(A1, B1), Move(B1, A1), Move(C2, A1) }

\* the board state that push saves and pop restores
BoardState(b) ==
    [pieces |-> b.pieces, turn |-> b.turn,
     halfmove_clock |-> b.halfmove_clock, fullmove_number |-> b.fullmove_number]

\* chess.Board(puzzle.fen): a white rook on a1, a black knight on c2, White to move
StartBoard ==
    [pieces |-> {<<A1, "R">>, <<C2, "n">>}, turn |-> WHITE,
     halfmove_clock |-> 0, fullmove_number |-> 1,
     move_stack |-> <<>>, stack |-> <<>>]

piece_at(b, square) ==
    IF \E e \in b.pieces : e[1] = square
    THEN (CHOOSE e \in b.pieces : e[1] = square)[2]
    ELSE "none"

\* board.fen(): placement, side to move, halfmove clock and fullmove number
\* (no castling rights and no en passant square arise here)
fen(b) == BoardState(b)

\* chess.Board(fen): the position of a notation, with no move played
Board(f) ==
    [pieces |-> f.pieces, turn |-> f.turn,
     halfmove_clock |-> f.halfmove_clock, fullmove_number |-> f.fullmove_number,
     move_stack |-> <<>>, stack |-> <<>>]

\* board.push(move), for a move from an occupied square
push(b, move) ==
    LET piece == piece_at(b, move.from_square)
        capture == piece_at(b, move.to_square) # "none"
        zeroing == capture \/ piece \in {"P", "p"}
    IN [pieces |-> {e \in b.pieces : e[1] \notin {move.from_square, move.to_square}}
                       \cup {<<move.to_square, piece>>},
        turn |-> ~b.turn,
        halfmove_clock |-> IF zeroing THEN 0 ELSE b.halfmove_clock + 1,
        fullmove_number |-> IF b.turn = BLACK THEN b.fullmove_number + 1
                            ELSE b.fullmove_number,
        move_stack |-> Append(b.move_stack, move),
        stack |-> Append(b.stack, BoardState(b))]

\* board.pop() on a non-empty move stack: the last move goes and the state
\* saved when it was pushed comes back
pop(b) ==
    LET n == Len(b.move_stack)
        saved == b.stack[n]
    IN [pieces |-> saved.pieces, turn |-> saved.turn,
        halfmove_clock |-> saved.halfmove_clock,
        fullmove_number |-> saved.fullmove_number,
        move_stack |-> SubSeq(b.move_stack, 1, n - 1),
        stack |-> SubSeq(b.stack, 1, n - 1)]

\* board.pop() raises IndexError on an empty move stack
PopRaises(b) == b.move_stack = <<>>

\* a changed exit: nothing propagates from the pop of an empty move stack
PopError_Silent == "none"

\* what propagates out of Position.__exit__ when board.pop() raises
PopError == "IndexError"

CanPush(b, move) ==
    /\ Len(b.move_stack) < MaxDepth
    /\ piece_at(b, move.from_square) # "none"

(***************************************************************************)
(* Position: the scoped move application                                    *)
(***************************************************************************)
\* a changed __exit__: the move is not reverted
PositionExitBoard_NoPop(b) == b

\* a changed __exit__: two moves are reverted
PositionExitBoard_PopTwice(b) ==
    IF Len(b.move_stack) >= 2 THEN pop(pop(b)) ELSE pop(b)

\* Position.__exit__ when the pop succeeds: self.board.pop()
PositionExitBoard(b) == pop(b)

\* a changed __exit__ that returns True
PositionExitSuppresses_Always == TRUE

\* Position.__exit__ returns None: the exception of the block is not suppressed
PositionExitSuppresses == FALSE

\* the open scopes whose pre-entry depth a pop down to depth d goes below
Dip(ss, d) == [i \in 1..Len(ss) |->
                 IF d < ss[i].depth THEN [ss[i] EXCEPT !.dipped = TRUE] ELSE ss[i]]

RemoveAt(ss, k) == SubSeq(ss, 1, k - 1) \o SubSeq(ss, k + 1, Len(ss))

\* no __exit__ call in the last step
NoExit ==
    [happened |-> FALSE, outOfOrder |-> FALSE, excBefore |-> "none",
     excAfter |-> "none", raised |-> FALSE, balanced |-> FALSE,
     move |-> Move(A1, A1), snap |-> StartBoard, reverted |-> <<>>,
     depthBefore |-> 0]

\* with Position(board, move) as board: __enter__ pushes the move
PositionEnter(move) ==
    /\ exc = "none"
    /\ Len(scopes) < MaxScopes
    /\ CanPush(board, move)
    /\ board' = push(board, move)
    /\ scopes' = Append(scopes, [move |-> move, snap |-> board,
                                 depth |-> Len(board.move_stack), dipped |-> FALSE])
    /\ lastExit' = NoExit
    /\ UNCHANGED exc
    /\ UNCHANGED <<narrVars, hashVars, pipeVars, sceneVars, shotVars, raceVars, annotVars, pgnVars, puzzleVars, mixVars>>

\* Position.__exit__ of the k-th open scope.  The with statement calls it for
\* the innermost scope, at the end of the block or while an exception of
\* the block unwinds; called for another scope, the exit is out of order.
PositionExit(k) ==
    /\ k \in 1..Len(scopes)
    /\ exc # "none" => k = Len(scopes)
    /\ LET s == scopes[k]
           raises == PopRaises(board)
           after == IF raises THEN board ELSE PositionExitBoard(board)
           excAfter == IF raises THEN PopError
                       ELSE IF PositionExitSuppresses THEN "none" ELSE exc
       IN /\ board' = after
          /\ exc' = excAfter
          /\ scopes' = Dip(RemoveAt(scopes, k), Len(after.move_stack))
          /\ lastExit' = [happened |-> TRUE, outOfOrder |-> k < Len(scopes),
                          excBefore |-> exc, excAfter |-> excAfter,
                          raised |-> raises,
                          balanced |-> ~s.dipped
                                       /\ Len(board.move_stack) = s.depth + 1,
                          move |-> s.move, snap |-> s.snap,
                          reverted |-> IF raises THEN <<>>
                                       ELSE <<board.move_stack[Len(board.move_stack)]>>,
                          depthBefore |-> Len(board.move_stack)]
    /\ UNCHANGED <<narrVars, hashVars, pipeVars, sceneVars, shotVars, raceVars, annotVars, pgnVars, puzzleVars, mixVars>>

\* the script pushes a move on the board itself: board.push(lastmove)
ScriptPush(move) ==
    /\ exc = "none"
    /\ CanPush(board, move)
    /\ board' = push(board, move)
    /\ lastExit' = NoExit
    /\ UNCHANGED <<scopes, exc>>
    /\ UNCHANGED <<narrVars, hashVars, pipeVars, sceneVars, shotVars, raceVars, annotVars, pgnVars, puzzleVars, mixVars>>

\* the script pops the board itself: board.pop()
ScriptPop ==
    /\ exc = "none"
    /\ IF PopRaises(board)
       THEN exc' = "IndexError" /\ UNCHANGED <<board, scopes>>
       ELSE /\ board' = pop(board)
            /\ scopes' = Dip(scopes, Len(board.move_stack) - 1)
            /\ UNCHANGED exc
    /\ lastExit' = NoExit
    /\ UNCHANGED <<narrVars, hashVars, pipeVars, sceneVars, shotVars, raceVars, annotVars, pgnVars, puzzleVars, mixVars>>

\* a statement of a with-block raises (add_scene, say)
BlockRaise ==
    /\ exc = "none"
    /\ scopes # <<>>
    /\ exc' = "BlockError"
    /\ lastExit' = NoExit
    /\ UNCHANGED <<board, scopes>>
    /\ UNCHANGED <<narrVars, hashVars, pipeVars, sceneVars, shotVars, raceVars, annotVars, pgnVars, puzzleVars, mixVars>>

(***************************************************************************)
(* StyledArrow                                                              *)
(***************************************************************************)
StyledArrow(tail, head, color) == [tail |-> tail, head |-> head, color |-> color]

\* StyledArrow.value
value(a) == a.head + a.tail

\* StyledArrow.__lt__
lt(a, b) == value(a) < value(b)

\* the sorted prefix t with x inserted before the first element x is less than
RECURSIVE InsertSorted(_, _)
InsertSorted(t, x) ==
    IF t = <<>> THEN <<x>>
    ELSE IF lt(x, Head(t)) THEN <<x>> \o t
    ELSE <<Head(t)>> \o InsertSorted(Tail(t), x)

\* sorted(arrows): Python's sort is stable and compares with __lt__ only
RECURSIVE sorted(_)
sorted(arrows) ==
    IF arrows = <<>> THEN <<>>
    ELSE InsertSorted(sorted(SubSeq(arrows, 1, Len(arrows) - 1)), arrows[Len(arrows)])

(***************************************************************************)
(* Puzzle, Scene, PuzzleVideo                                               *)
(***************************************************************************)
\* a Puzzle, with the field of its fen that orientation reads: fen.split()[1]
Puzzle(puzzleid, notation, rating) ==
    [puzzleid |-> puzzleid, side_to_move |-> split(notation)[2], rating |-> rating]

\* a changed orientation: the side to move
orientation_Mover(puzzle) == IF puzzle.side_to_move = <<"b">> THEN BLACK ELSE WHITE

\* Puzzle.orientation, from the side-to-move field of the starting position
orientation(puzzle) == IF puzzle.side_to_move = <<"b">> THEN WHITE ELSE BLACK

\* Scene.pause_duration when the caller gives none: 0.25 s, in hundredths
DefaultPause == 25

\* Scene.__init__: the board is deep-copied
Scene(name, narration, b, arrows, orient, output_dir, pause_duration) ==
    [name |-> name, narration |-> narration, board |-> b, arrows |-> arrows,
     orientation |-> orient, output_dir |-> output_dir,
     pause_duration |-> pause_duration]

\* Scene.video_hash: sha256 of f"{audio_hash}-{fen}-{sorted(arrows)}"
SceneVideoHash(scene) ==
    sha256(<<audio_hash(scene.narration), "-", fen(scene.board), "-",
             sorted(scene.arrows)>>)

\* Scene.video_path
SceneVideoPath(scene) == PathJoin(scene.output_dir, SceneVideoHash(scene), ".mp4")

\* PuzzleVideo.__init__: no scene yet
PuzzleVideo(meta) ==
    [output_dir |-> meta.output_dir, title |-> meta.title,
     description |-> meta.description, tags |-> meta.tags,
     category |-> meta.category, puzzle |-> meta.puzzle,
     voice_id |-> meta.voice_id, background_video |-> meta.background_video,
     background_music |-> meta.background_music, scenes |-> <<>>]

\* "-".join(hashes)
RECURSIVE Join(_)
Join(hashes) ==
    IF hashes = <<>> THEN <<>>
    ELSE IF Len(hashes) = 1 THEN <<hashes[1]>>
    ELSE <<hashes[1], "-">> \o Join(Tail(hashes))

SceneHashes(v) == [i \in 1..Len(v.scenes) |-> SceneVideoHash(v.scenes[i])]

\* a changed hash: the title is hashed with the scene hashes
video_hash_WithTitle(v) == sha256(<<v.title>> \o Join(SceneHashes(v)))

\* a changed hash: the scene hashes are hashed as a set, whatever their order
video_hash_Unordered(v) ==
    sha256(<<{SceneVideoHash(v.scenes[i]) : i \in 1..Len(v.scenes)}, Len(v.scenes)>>)

\* PuzzleVideo.video_hash
video_hash(v) == sha256(Join(SceneHashes(v)))

\* PuzzleVideo.video_path
video_path(v) == PathJoin(v.output_dir, video_hash(v), ".mp4")

\* the Scene that PuzzleVideo.add_scene constructs, appends and returns
NewScene(v, name, narration, kwargs) ==
    Scene(name, Narration(narration, v.voice_id), kwargs.board, kwargs.arrows,
          orientation(v.puzzle), v.output_dir, kwargs.pause_duration)

\* a changed add_scene: the new Scene goes to the front of the list
add_scene_Prepend(v, name, narration, kwargs) ==
    [v EXCEPT !.scenes = <<NewScene(v, name, narration, kwargs)>> \o @]

\* PuzzleVideo.add_scene: the video with the new Scene at the end of its list
add_scene(v, name, narration, kwargs) ==
    [v EXCEPT !.scenes = Append(@, NewScene(v, name, narration, kwargs))]

\* the boards the script shows: the start position and the one after Ra1-b1
SceneBoards == {StartBoard, push(StartBoard, Move(A1, B1))}

SceneArgs(name, narration, b, arrows, pause_duration) ==
    [name |-> name, narration |-> narration,
     kwargs |-> [board |-> b, arrows |-> arrows, pause_duration |-> pause_duration]]

\* The add_scene calls of the scripts.  The first two differ in title and raw
\* text only; the last two differ in the order of their arrows, which have
\* equal values (0 + 3 and 1 + 2).
ScenePool ==
    { SceneArgs("Intro", <<"a">>, StartBoard, <<>>, DefaultPause),
      SceneArgs("Puzzle", <<" ", "a">>, StartBoard, <<>>, 0),
      SceneArgs("Puzzle", <<"b">>, push(StartBoard, Move(A1, B1)),
                <<StyledArrow(A1, D1, "green"), StyledArrow(B1, C1, "red")>>,
                DefaultPause),
      SceneArgs("Puzzle", <<"b">>, push(StartBoard, Move(A1, B1)),
                <<StyledArrow(B1, C1, "red"), StyledArrow(A1, D1, "green")>>,
                DefaultPause) }

Meta(title, voice_id, side_to_move, tag) ==
    [output_dir |-> <<"data", "puzzles", "cSRB1">>, title |-> title,
     description |-> <<"description", tag>>, tags |-> <<"chess", tag>>,
     category |-> <<"category", tag>>,
     puzzle |-> [puzzleid |-> "cSRB1", side_to_move |-> <<side_to_move>>, rating |-> 1946],
     voice_id |-> voice_id, background_video |-> [clip |-> <<"video", tag>>, w |-> 1080, h |-> 1920],
     background_music |-> <<"music", tag>>]

\* two constructions that share the output directory and nothing else
MetaA == Meta("Daily Chess Puzzle", "voiceA", "b", "a")
MetaB == Meta("Evening Chess Puzzle", "voiceB", "w", "b")

\* the caller edits the scene list of video k
\* what an edit other than add_scene returns
NoScene == [name |-> "none"]

EditScenes(k, kind, after, differ, returned) ==
    LET edited == [videos EXCEPT ![k] = after] IN
    /\ videos' = edited
    /\ lastOp' = [kind |-> kind, video |-> k,
                  changed |-> video_hash(after) # video_hash(videos[k]),
                  differ |-> differ, returned |-> returned,
                  othersSame |-> \A l \in 1..2 :
                      l # k => video_hash(edited[l]) = video_hash(videos[l])]
    /\ UNCHANGED <<narrVars, posVars, pipeVars, sceneVars, shotVars, raceVars, annotVars, pgnVars, puzzleVars, mixVars>>

\* video.add_scene(name, narration, board=..., arrows=...)
AddScene(k, args) ==
    /\ Len(videos[k].scenes) < MaxScenes
    /\ EditScenes(k, "append",
                  add_scene(videos[k], args.name, args.narration, args.kwargs), TRUE,
                  NewScene(videos[k], args.name, args.narration, args.kwargs))

\* del video.scenes[i]
RemoveScene(k, i) ==
    /\ i \in 1..Len(videos[k].scenes)
    /\ EditScenes(k, "remove",
                  [videos[k] EXCEPT !.scenes = RemoveAt(@, i)], TRUE, NoScene)

\* video.scenes[i], video.scenes[j] = video.scenes[j], video.scenes[i]
SwapScenes(k, i, j) ==
    /\ i \in 1..Len(videos[k].scenes) /\ j \in 1..Len(videos[k].scenes)
    /\ i < j
    /\ LET ss == videos[k].scenes IN
         EditScenes(k, "swap",
                    [videos[k] EXCEPT !.scenes = [ss EXCEPT ![i] = ss[j], ![j] = ss[i]]],
                    SceneVideoHash(ss[i]) # SceneVideoHash(ss[j]), NoScene)

NoOp == [kind |-> "none", video |-> 0, changed |-> FALSE, differ |-> FALSE,
         returned |-> NoScene, othersSame |-> TRUE]

(***************************************************************************)
(* The rendering pipeline.  One generate() call is one step; inside it the  *)
(* files and the collaborator calls are threaded through a record w:        *)
(*   audio, images, videos  the three file stores                            *)
(*   calls                  the collaborator calls of this run, in order     *)
(*   raised                 an exception is propagating out of generate()    *)
(* The run r says which collaborator call raises (failAt, 0 for none) and    *)
(* whether a write that raises leaves a truncated file (partial).            *)
(***************************************************************************)
NoFiles == [p \in {} |-> {}]

\* os.path.exists
Exists(files, path) == path \in DOMAIN files

Put(files, path, content) ==
    [q \in DOMAIN files \cup {path} |-> IF q = path THEN content ELSE files[q]]

\* What a write leaves at its path: the content; or, when it raises, what
\* was there before or a truncated file.
Written(files, path, content, raised, partial) ==
    IF ~raised THEN Put(files, path, content)
    ELSE IF partial THEN Put(files, path, [content EXCEPT !.complete = FALSE])
    ELSE files

World(audio, images, mp4) ==
    [audio |-> audio, images |-> images, videos |-> mp4, calls |-> <<>>,
     raised |-> FALSE]

\* A collaborator is called: the call is logged, and it raises when it is
\* the failing call of the run.
Invoke(w, r, kind, path, args) ==
    [w EXCEPT !.calls = Append(@, [kind |-> kind, path |-> path, args |-> args]),
              !.raised = (Len(w.calls) + 1 = r.failAt)]

\* moviepy's AudioFileClip / ImageClip / VideoFileClip on a cached file
Load(w, r, path, class) ==
    IF w.raised THEN w ELSE Invoke(w, r, "load", path, [class |-> class])

\* Narration.generate() within a run
NarrationGenerateRun(n, w, r) ==
    IF w.raised THEN w
    ELSE LET c == Invoke(w, r, "synthesis", audio_path(n),
                         [text |-> n.text, voice_id |-> n.voice_id])
             w1 == IF NeedsSynthesis(n, w.audio)
                   THEN [c EXCEPT !.audio =
                            generate_audio_from_text(@, audio_path(n), ~c.raised)]
                   ELSE w
         IN Load(w1, r, audio_path(n), "AudioFileClip")

\* the path of a scene's board image: sha256 of f"{fen}-{sorted(arrows)}"
BoardClipPath(scene) ==
    PathJoin(scene.output_dir,
             sha256(<<fen(scene.board), "-", sorted(scene.arrows)>>), ".png")

\* board.move_stack[-1] if board.move_stack else None
lastmove(b) ==
    IF b.move_stack # <<>> THEN <<b.move_stack[Len(b.move_stack)]>> ELSE <<>>

\* the image chess.svg.board and cairosvg.svg2png draw for a scene
BoardImage(scene, size) ==
    [board |-> fen(scene.board), orientation |-> scene.orientation,
     arrows |-> scene.arrows, lastmove |-> lastmove(scene.board),
     size |-> size, complete |-> TRUE]

\* Scene._generate_board_clip
GenerateBoardClip(scene, size, w, r) ==
    IF w.raised THEN w
    ELSE LET p == BoardClipPath(scene)
             c == Invoke(w, r, "rasterization", p, [size |-> size])
             w1 == IF ~Exists(w.images, p)
                   THEN [c EXCEPT !.images =
                            Written(@, p, BoardImage(scene, size), c.raised, r.partial)]
                   ELSE w
         IN Load(w1, r, p, "ImageClip")

\* the clip Scene.generate composes: board image, title, caption and audio
SceneClip(scene, w, height, width) ==
    [name |-> scene.name, caption |-> scene.narration.text,
     audio |-> audio_path(scene.narration), pause |-> scene.pause_duration,
     image |-> w.images[BoardClipPath(scene)], size |-> <<width, height>>,
     complete |-> TRUE]

\* scene_clip.set_duration(audio_clip.duration) of a clip file: the duration
\* of the narration audio and the pause it was built with, as the two terms
\* of their sum (the pause in hundredths of a second)
ClipDuration(f) == [narration |-> f.audio, pause |-> f.pause]

\* a changed guard: build the clip on every call
SceneNeedsBuild_Always(scene, files) == TRUE

\* the guard of Scene.generate: build only when no clip is cached
SceneNeedsBuild(scene, files) == ~Exists(files, SceneVideoPath(scene))

\* Scene.generate(height, width)
SceneGenerate(scene, height, width, w, r) ==
    IF w.raised THEN w
    ELSE LET p == SceneVideoPath(scene)
             a == NarrationGenerateRun(scene.narration, w, r)
             b == GenerateBoardClip(scene, width - 64, a, r)
             c == Invoke(b, r, "encoding", p, [name |-> scene.name])
             built == IF b.raised THEN b
                      ELSE [c EXCEPT !.videos =
                               Written(@, p, SceneClip(scene, b, height, width),
                                       c.raised, r.partial)]
             w1 == IF SceneNeedsBuild(scene, w.videos) THEN built ELSE w
         IN Load(w1, r, p, "VideoFileClip")

\* youtube_upload: the publish collaborator, called with the artifact and
\* the video's metadata
youtube_upload(w, r, video_filepath, title, description, tags, category, privacy_status) ==
    Invoke(w, r, "publish", video_filepath,
           [title |-> title, description |-> description, tags |-> tags,
            category |-> category, license |-> "creativeCommon",
            privacy_status |-> privacy_status])

\* a changed guard: publish whenever upload is requested
ShouldUpload_Requested(upload, exists) == upload

\* the first guard of PuzzleVideo.generate
ShouldUpload(upload, exists) == upload /\ exists

\* a changed guard: build on every call
NeedsBuild_Always(v, files) == TRUE

\* the second guard of PuzzleVideo.generate: build only when no artifact is cached
NeedsBuild(v, files) == ~Exists(files, video_path(v))

\* os.path.join(self.output_dir, "final.mp4")
FinalCopyPath(v) == PathJoin(v.output_dir, [literal |-> "final"], ".mp4")

\* a changed loop: the scenes are generated last to first
RECURSIVE GenerateScenes_Reversed(_, _, _, _)
GenerateScenes_Reversed(v, i, w, r) ==
    IF i > Len(v.scenes) THEN w
    ELSE SceneGenerate(v.scenes[i], v.background_video.h, v.background_video.w,
                       GenerateScenes_Reversed(v, i + 1, w, r), r)

\* the loop of PuzzleVideo.generate over the scenes, from scene i on
RECURSIVE GenerateScenes(_, _, _, _)
GenerateScenes(v, i, w, r) ==
    IF i > Len(v.scenes) THEN w
    ELSE GenerateScenes(v, i + 1,
             SceneGenerate(v.scenes[i], v.background_video.h,
                           v.background_video.w, w, r), r)

\* the video PuzzleVideo.generate composes: the scene clips as loaded from
\* their files, over the background video and music
FinalVideo(v, w) ==
    LET clips == [i \in 1..Len(v.scenes) |-> w.videos[SceneVideoPath(v.scenes[i])]]
    IN [clips |-> clips,
        narration_audio |-> [i \in 1..Len(clips) |-> clips[i].audio],
        background_video |-> v.background_video,
        background_music |-> v.background_music, complete |-> TRUE]

\* the two write_videofile calls of PuzzleVideo.generate
WriteFinal(v, w, r) ==
    IF w.raised THEN w
    ELSE LET c == Invoke(w, r, "encoding", video_path(v), [name |-> v.title])
             w1 == [c EXCEPT !.videos =
                       Written(@, video_path(v), FinalVideo(v, w), c.raised, r.partial)]
             d == Invoke(w1, r, "encoding", FinalCopyPath(v), [name |-> v.title])
         IN IF w1.raised THEN w1
            ELSE [d EXCEPT !.videos =
                     Written(@, FinalCopyPath(v), FinalVideo(v, w), d.raised, r.partial)]

\* a changed return: the handle is loaded from the convenience copy
ReturnedPath_FinalCopy(v) == FinalCopyPath(v)

\* the path PuzzleVideo.generate loads its return value from
ReturnedPath(v) == video_path(v)

\* PuzzleVideo.generate(upload)
PuzzleVideoGenerate(v, upload, w, r) ==
    LET p == video_path(v)
        w1 == IF ShouldUpload(upload, Exists(w.videos, p))
              THEN youtube_upload(w, r, p, v.title, v.description, v.tags,
                                  v.category, "public")
              ELSE w
        w2 == IF ~w1.raised /\ NeedsBuild(v, w1.videos)
              THEN WriteFinal(v, GenerateScenes(v, 1, w1, r), r)
              ELSE w1
    IN Load(w2, r, ReturnedPath(v), "VideoFileClip")

\* the add_scene calls of the puzzle script
ScriptScenes ==
    { SceneArgs("Intro", <<"a">>, StartBoard, <<>>, DefaultPause),
      SceneArgs("Puzzle", <<"b">>, push(StartBoard, Move(A1, B1)),
                <<StyledArrow(A1, D1, "green"), StyledArrow(B1, C1, "red")>>,
                DefaultPause) }

\* the cache paths of a construction
CachePaths(v) ==
    [narration |-> [i \in 1..Len(v.scenes) |-> audio_path(v.scenes[i].narration)],
     image |-> [i \in 1..Len(v.scenes) |-> BoardClipPath(v.scenes[i])],
     clip |-> [i \in 1..Len(v.scenes) |-> SceneVideoPath(v.scenes[i])],
     final |-> video_path(v)]

NoRun == [happened |-> FALSE, first |-> FALSE, upload |-> FALSE, existed |-> FALSE,
          calls |-> <<>>, returned |-> FALSE, completedBefore |-> FALSE]

\* A run of the puzzle script constructs a PuzzleVideo; a run starts at any
\* time, also after a generate() that raised and ended the run before.
NewPuzzleVideo(meta) ==
    /\ constructed < MaxConstructions
    /\ video' = PuzzleVideo(meta)
    /\ phase' = "building"
    /\ constructed' = constructed + 1
    /\ last' = NoRun
    /\ UNCHANGED <<imageFiles, videoFiles, failedRuns, completed>>
    /\ UNCHANGED <<narrVars, posVars, hashVars, sceneVars, shotVars, raceVars, annotVars, pgnVars, puzzleVars, mixVars>>

\* the script calls video.add_scene(name, narration, **kwargs), once for each
\* of its scenes, before it generates
VideoAddScene(args) ==
    /\ phase = "building"
    /\ video' = add_scene(video, args.name, args.narration, args.kwargs)
    /\ \A i \in 1..Len(video.scenes) : video.scenes[i] # video'.scenes[Len(video'.scenes)]
    /\ last' = NoRun
    /\ UNCHANGED <<phase, constructed, imageFiles, videoFiles, failedRuns, completed>>
    /\ UNCHANGED <<narrVars, posVars, hashVars, sceneVars, shotVars, raceVars, annotVars, pgnVars, puzzleVars, mixVars>>

\* the script calls video.generate(upload); any one collaborator call of the
\* run may raise (failAt, none when 0), and a write that raises may leave a
\* truncated file
Generate(upload) ==
    LET w0 == World(audioFiles, imageFiles, videoFiles)
        unfailing == PuzzleVideoGenerate(video, upload, w0,
                                         [failAt |-> 0, partial |-> FALSE])
    IN \E failAt \in 0..Len(unfailing.calls), partial \in BOOLEAN :
       LET w == PuzzleVideoGenerate(video, upload, w0,
                                    [failAt |-> failAt, partial |-> partial])
       IN /\ phase # "raised"
          /\ failAt > 0 => failedRuns < MaxFailedRuns
          /\ partial => failAt > 0
          /\ audioFiles' = w.audio
          /\ imageFiles' = w.images
          /\ videoFiles' = w.videos
          /\ phase' = IF w.raised THEN "raised" ELSE "generated"
          /\ failedRuns' = IF w.raised THEN failedRuns + 1 ELSE failedRuns
          /\ completed' = IF w.raised THEN completed
                          ELSE completed \cup
                               {[video |-> video, paths |-> CachePaths(video)]}
          /\ last' = [happened |-> TRUE, first |-> phase = "building",
                      upload |-> upload,
                      existed |-> Exists(videoFiles, video_path(video)),
                      calls |-> w.calls, returned |-> ~w.raised,
                      completedBefore |-> \E c \in completed : c.video = video]
          /\ UNCHANGED <<video, constructed>>
          /\ UNCHANGED <<narrations, synthLog, genLog>>
          /\ UNCHANGED <<posVars, hashVars, sceneVars, shotVars, raceVars, annotVars, pgnVars, puzzleVars, mixVars>>

(***************************************************************************)
(* Scene.generate called on its own, scene after scene, on one pair of      *)
(* cache directories.                                                       *)
(***************************************************************************)
\* the only Scene of a video built with one add_scene call
SceneOf(meta, args) ==
    add_scene(PuzzleVideo(meta), args.name, args.narration, args.kwargs).scenes[1]

\* The scenes that are generated.  The second has the narration text, board
\* and arrows of the first and another title, voice, orientation and pause;
\* the third has the board and arrows of the first and another narration;
\* the last two differ in the order of two arrows of equal value.
GeneratedScenes ==
    { SceneOf(MetaA, SceneArgs("Intro", <<"a">>, StartBoard, <<>>, DefaultPause)),
      SceneOf(MetaB, SceneArgs("Puzzle", <<" ", "a">>, StartBoard, <<>>, 0)),
      SceneOf(MetaA, SceneArgs("Puzzle", <<"b">>, StartBoard, <<>>, DefaultPause)),
      SceneOf(MetaA, SceneArgs("Puzzle", <<"b">>, push(StartBoard, Move(A1, B1)),
                <<StyledArrow(A1, D1, "green"), StyledArrow(B1, C1, "red")>>,
                DefaultPause)),
      SceneOf(MetaA, SceneArgs("Puzzle", <<"b">>, push(StartBoard, Move(A1, B1)),
                <<StyledArrow(B1, C1, "red"), StyledArrow(A1, D1, "green")>>,
                DefaultPause)) }

\* The scenes of a script that is run, edited and run again.  The second is
\* the first with another pause; the fourth has the arrows and the position
\* of the third, set up from its notation with no move played, and another
\* narration.
RerunScenes ==
    { SceneOf(MetaA, SceneArgs("Intro", <<"a">>, StartBoard, <<>>, DefaultPause)),
      SceneOf(MetaA, SceneArgs("Intro", <<"a">>, StartBoard, <<>>, 0)),
      SceneOf(MetaA, SceneArgs("Puzzle", <<"b">>, push(StartBoard, Move(A1, B1)),
                <<StyledArrow(A1, D1, "green"), StyledArrow(B1, C1, "red")>>,
                DefaultPause)),
      SceneOf(MetaA, SceneArgs("Puzzle", <<"a">>,
                Board(fen(push(StartBoard, Move(A1, B1)))),
                <<StyledArrow(A1, D1, "green"), StyledArrow(B1, C1, "red")>>,
                DefaultPause)) }

\* what the image sub-cache is meant to be keyed by: the directory, the
\* position notation and the set of annotations
ImageKey(scene) ==
    [output_dir |-> scene.output_dir, fen |-> fen(scene.board),
     annotations |-> {scene.arrows[i] : i \in 1..Len(scene.arrows)}]

NoSceneRun == [happened |-> FALSE, scene |-> {}, existed |-> FALSE, calls |-> <<>>,
               returned |-> FALSE, wrote |-> FALSE]

\* scene.generate(height, width); any one collaborator call of it may raise
SceneGenerateCall(scene) ==
    LET w0 == World(audioFiles, imageFiles, videoFiles)
        height == MetaA.background_video.h
        width == MetaA.background_video.w
        unfailing == SceneGenerate(scene, height, width, w0,
                                   [failAt |-> 0, partial |-> FALSE])
    IN \E failAt \in 0..Len(unfailing.calls), partial \in BOOLEAN :
       LET w == SceneGenerate(scene, height, width, w0,
                              [failAt |-> failAt, partial |-> partial])
           rastered == \E i \in 1..Len(w.calls) : w.calls[i].kind = "rasterization"
       IN /\ failAt > 0 => failedRuns < MaxFailedRuns
          /\ partial => failAt > 0
          /\ audioFiles' = w.audio
          /\ imageFiles' = w.images
          /\ videoFiles' = w.videos
          /\ failedRuns' = IF w.raised THEN failedRuns + 1 ELSE failedRuns
          /\ rasterized' = IF rastered THEN rasterized \cup {ImageKey(scene)}
                           ELSE rasterized
          /\ rasterRepeated' = (rasterRepeated
                                \/ (rastered /\ ImageKey(scene) \in rasterized))
          /\ lastScene' = [happened |-> TRUE, scene |-> scene,
                           existed |-> Exists(videoFiles, SceneVideoPath(scene)),
                           calls |-> w.calls, returned |-> ~w.raised,
                           wrote |-> <<w.audio, w.images, w.videos>>
                                       # <<audioFiles, imageFiles, videoFiles>>]
          /\ UNCHANGED <<video, phase, constructed, completed, last>>
          /\ UNCHANGED <<narrations, synthLog, genLog>>
          /\ UNCHANGED <<posVars, hashVars, shotVars, raceVars, annotVars, pgnVars, puzzleVars, mixVars>>

(***************************************************************************)
(* Scenes and the caller's objects.  A Scene is built from the caller's     *)
(* board and the caller's list of arrows; a shot is a Scene with what it    *)
(* holds of its own and what it shares with the caller.                     *)
(***************************************************************************)
\* a changed constructor: self.board = board
SceneBoardIsCopy_Alias == FALSE

\* Scene.__init__: self.board = copy.deepcopy(board), an object of its own
SceneBoardIsCopy == TRUE

\* Scene.__init__: self.arrows = arrows, the caller's list object
SceneArrowsIsCopy == FALSE

\* the Scene of a shot as it is now
CurrentScene(shot) ==
    [shot.scene EXCEPT !.board = IF shot.ownsBoard THEN @ ELSE board,
                       !.arrows = IF shot.ownsArrows THEN @ ELSE annotations]

\* the arrows the script draws
ScriptArrows ==
    {StyledArrow(A1, D1, "green"), StyledArrow(B1, C1, "red"), StyledArrow(A1, C2, "red")}

\* video.add_scene(name, narration, board=board, arrows=annotations)
ScriptAddScene ==
    /\ Len(shots) < MaxShots
    /\ LET scene == SceneOf(MetaA, SceneArgs("Puzzle", <<"a">>, board, annotations,
                                             DefaultPause))
       IN shots' = Append(shots, [scene |-> scene,
                                  ownsBoard |-> SceneBoardIsCopy,
                                  ownsArrows |-> SceneArrowsIsCopy,
                                  video_hash |-> SceneVideoHash(scene),
                                  video_path |-> SceneVideoPath(scene)])
    /\ UNCHANGED annotations
    /\ UNCHANGED <<narrVars, posVars, hashVars, pipeVars, sceneVars, raceVars, annotVars, pgnVars, puzzleVars, mixVars>>

\* annotations.append(arrow)
AppendArrow(arrow) ==
    /\ Len(annotations) < MaxArrows
    /\ annotations' = Append(annotations, arrow)
    /\ UNCHANGED shots
    /\ UNCHANGED <<narrVars, posVars, hashVars, pipeVars, sceneVars, raceVars, annotVars, pgnVars, puzzleVars, mixVars>>

\* del annotations[i]
RemoveArrow(i) ==
    /\ i \in 1..Len(annotations)
    /\ annotations' = RemoveAt(annotations, i)
    /\ UNCHANGED shots
    /\ UNCHANGED <<narrVars, posVars, hashVars, pipeVars, sceneVars, raceVars, annotVars, pgnVars, puzzleVars, mixVars>>

\* annotations.reverse()
ReverseArrows ==
    /\ Len(annotations) > 1
    /\ annotations' = [i \in 1..Len(annotations) |-> annotations[Len(annotations) + 1 - i]]
    /\ UNCHANGED shots
    /\ UNCHANGED <<narrVars, posVars, hashVars, pipeVars, sceneVars, raceVars, annotVars, pgnVars, puzzleVars, mixVars>>

(***************************************************************************)
(* Two processes on the same cache directories.  generate() of a Narration, *)
(* a Scene and a PuzzleVideo each checks its path and creates the file when *)
(* it saw none; a process is between the two steps at "create".             *)
(***************************************************************************)
Procs == {"p1", "p2"}

\* the objects both processes generate
RaceVideo ==
    add_scene(PuzzleVideo(MetaA), "Intro", <<"a">>,
              [board |-> StartBoard, arrows |-> <<>>, pause_duration |-> DefaultPause])

RaceScene == RaceVideo.scenes[1]

RaceNarration == RaceScene.narration

\* the cache path of generate() on the object of a kind
RacePath(kind) ==
    CASE kind = "narration" -> audio_path(RaceNarration)
      [] kind = "scene" -> SceneVideoPath(RaceScene)
      [] kind = "video" -> video_path(RaceVideo)

\* the existence check of generate() on the object of a kind
RaceNeedsCreate(kind) ==
    CASE kind = "narration" -> NeedsSynthesis(RaceNarration, audioFiles)
      [] kind = "scene" -> SceneNeedsBuild(RaceScene, videoFiles)
      [] kind = "video" -> NeedsBuild(RaceVideo, videoFiles)

\* a changed create step: look again, and skip the creation if the file is there
RecheckBeforeCreate_Yes == TRUE

\* between the existence check and the creation nothing looks at the path again
RecheckBeforeCreate == FALSE

Idle == [pc |-> "idle", kind |-> "none", sawAbsent |-> FALSE]

\* process p calls generate() on the object of a kind
RaceStart(p, kind) ==
    /\ procs[p].pc = "idle"
    /\ procs' = [procs EXCEPT ![p] = [pc |-> "check", kind |-> kind, sawAbsent |-> FALSE]]
    /\ UNCHANGED <<audioFiles, videoFiles, raceLog>>
    /\ UNCHANGED <<narrations, synthLog, genLog, imageFiles>>
    /\ UNCHANGED <<video, phase, constructed, failedRuns, completed, last>>
    /\ UNCHANGED <<posVars, hashVars, sceneVars, shotVars, annotVars, pgnVars, puzzleVars, mixVars>>

\* process p evaluates `if not os.path.exists(path)`
RaceCheck(p) ==
    /\ procs[p].pc = "check"
    /\ procs' = [procs EXCEPT ![p].sawAbsent = RaceNeedsCreate(procs[p].kind),
                              ![p].pc = IF RaceNeedsCreate(procs[p].kind)
                                        THEN "create" ELSE "load"]
    /\ UNCHANGED <<audioFiles, videoFiles, raceLog>>
    /\ UNCHANGED <<narrations, synthLog, genLog, imageFiles>>
    /\ UNCHANGED <<video, phase, constructed, failedRuns, completed, last>>
    /\ UNCHANGED <<posVars, hashVars, sceneVars, shotVars, annotVars, pgnVars, puzzleVars, mixVars>>

\* process p, having seen no file, calls the collaborator, which writes the path
RaceCreate(p) ==
    /\ procs[p].pc = "create"
    /\ LET kind == procs[p].kind
           skip == RecheckBeforeCreate /\ ~RaceNeedsCreate(kind)
       IN /\ audioFiles' = IF kind = "narration" /\ ~skip
                           THEN generate_audio_from_text(audioFiles, RacePath(kind), TRUE)
                           ELSE audioFiles
          /\ videoFiles' = IF kind # "narration" /\ ~skip
                           THEN Put(videoFiles, RacePath(kind),
                                    [writer |-> p, complete |-> TRUE])
                           ELSE videoFiles
          /\ raceLog' = IF skip THEN raceLog
                        ELSE Append(raceLog, [proc |-> p, kind |-> kind,
                                              path |-> RacePath(kind)])
    /\ procs' = [procs EXCEPT ![p].pc = "load"]
    /\ UNCHANGED <<narrations, synthLog, genLog, imageFiles>>
    /\ UNCHANGED <<video, phase, constructed, failedRuns, completed, last>>
    /\ UNCHANGED <<posVars, hashVars, sceneVars, shotVars, annotVars, pgnVars, puzzleVars, mixVars>>

\* process p loads the file and returns
RaceLoad(p) ==
    /\ procs[p].pc = "load"
    /\ procs' = [procs EXCEPT ![p].pc = "done"]
    /\ UNCHANGED <<audioFiles, videoFiles, raceLog>>
    /\ UNCHANGED <<narrations, synthLog, genLog, imageFiles>>
    /\ UNCHANGED <<video, phase, constructed, failedRuns, completed, last>>
    /\ UNCHANGED <<posVars, hashVars, sceneVars, shotVars, annotVars, pgnVars, puzzleVars, mixVars>>

(***************************************************************************)
(* The annotation generators show_attacks and show_attacked, on a board the *)
(* caller has set up.                                                       *)
(***************************************************************************)
square_file(square) == square % 8
square_rank(square) == square \div 8

OnBoard(f, r) == f \in 0..7 /\ r \in 0..7

WhiteSymbols == {"P", "N", "B", "R", "Q", "K"}

\* Piece.color of a piece symbol: upper case is White
piece_color(symbol) == IF symbol \in WhiteSymbols THEN WHITE ELSE BLACK

\* Piece.piece_type: chess.PAWN = 1, KNIGHT = 2, BISHOP = 3, ROOK = 4, QUEEN = 5, KING = 6
piece_type(symbol) ==
    CASE symbol \in {"P", "p"} -> 1
      [] symbol \in {"N", "n"} -> 2
      [] symbol \in {"B", "b"} -> 3
      [] symbol \in {"R", "r"} -> 4
      [] symbol \in {"Q", "q"} -> 5
      [] symbol \in {"K", "k"} -> 6

KING == piece_type("K")

\* the squares a slider on (f, r) reaches in direction (df, dr): up to and
\* including the first occupied square
RECURSIVE Ray(_, _, _, _, _)
Ray(b, f, r, df, dr) ==
    IF ~OnBoard(f + df, r + dr) THEN {}
    ELSE IF piece_at(b, SquareAt(f + df, r + dr)) # "none"
         THEN {SquareAt(f + df, r + dr)}
         ELSE {SquareAt(f + df, r + dr)} \cup Ray(b, f + df, r + dr, df, dr)

\* the squares at the given offsets from (f, r) that are on the board
Steps(f, r, deltas) ==
    {SquareAt(f + d[1], r + d[2]) : d \in {e \in deltas : OnBoard(f + e[1], r + e[2])}}

Diagonals == {<<1, 1>>, <<1, -1>>, <<-1, 1>>, <<-1, -1>>}
Lines == {<<1, 0>>, <<-1, 0>>, <<0, 1>>, <<0, -1>>}
KnightJumps == {<<1, 2>>, <<2, 1>>, <<2, -1>>, <<1, -2>>,
                <<-1, -2>>, <<-2, -1>>, <<-2, 1>>, <<-1, 2>>}

Rays(b, f, r, deltas) == UNION {Ray(b, f, r, d[1], d[2]) : d \in deltas}

\* board.attacks(square): the squares the piece on the square attacks, own
\* pieces included; none from an empty square
attacks(b, square) ==
    LET symbol == piece_at(b, square)
        f == square_file(square)
        r == square_rank(square)
    IN IF symbol = "none" THEN {}
       ELSE CASE piece_type(symbol) = 1 ->
                    Steps(f, r, IF piece_color(symbol) = WHITE
                                THEN {<<-1, 1>>, <<1, 1>>} ELSE {<<-1, -1>>, <<1, -1>>})
              [] piece_type(symbol) = 2 -> Steps(f, r, KnightJumps)
              [] piece_type(symbol) = 3 -> Rays(b, f, r, Diagonals)
              [] piece_type(symbol) = 4 -> Rays(b, f, r, Lines)
              [] piece_type(symbol) = 5 -> Rays(b, f, r, Diagonals \cup Lines)
              [] piece_type(symbol) = 6 -> Steps(f, r, Diagonals \cup Lines)

\* board.attackers(color, square): the squares of the pieces of a color that
\* attack the square
attackers(b, color, square) ==
    {e[1] : e \in {p \in b.pieces : /\ piece_color(p[2]) = color
                                    /\ square \in attacks(b, p[1])}}

\* a changed iteration: descending square index
RECURSIVE Ascending_Reversed(_)
Ascending_Reversed(squares) ==
    IF squares = {} THEN <<>>
    ELSE LET most == CHOOSE s \in squares : \A t \in squares : s >= t
         IN <<most>> \o Ascending_Reversed(squares \ {most})

\* iteration over a SquareSet: ascending square index
RECURSIVE Ascending(_)
Ascending(squares) ==
    IF squares = {} THEN <<>>
    ELSE LET least == CHOOSE s \in squares : \A t \in squares : s <= t
         IN <<least>> \o Ascending(squares \ {least})

\* a changed order: lowest piece type first
byTypeAscending(b, x, y) == piece_type(piece_at(b, x)) < piece_type(piece_at(b, y))

\* sorted(..., reverse=True) puts x before the first element of smaller key
byTypeDescending(b, x, y) == piece_type(piece_at(b, x)) > piece_type(piece_at(b, y))

\* the sorted prefix t with x inserted after every element it does not precede
RECURSIVE InsertByType(_, _, _)
InsertByType(b, t, x) ==
    IF t = <<>> THEN <<x>>
    ELSE IF byTypeDescending(b, x, Head(t)) THEN <<x>> \o t
    ELSE <<Head(t)>> \o InsertByType(b, Tail(t), x)

\* sorted(attackers, key=piece_type, reverse=True): stable
RECURSIVE sortedByType(_, _)
sortedByType(b, squares) ==
    IF squares = <<>> THEN <<>>
    ELSE InsertByType(b, sortedByType(b, SubSeq(squares, 1, Len(squares) - 1)),
                      squares[Len(squares)])

Min(a, b) == IF a < b THEN a ELSE b

\* attackers[:max_arrows] for max_arrows >= 0
Slice(s, n) == SubSeq(s, 1, Min(n, Len(s)))

\* show_attacks(board, square, max_arrows)
show_attacks(b, square, max_arrows) ==
    LET occupied == {s \in attacks(b, square) : piece_at(b, s) # "none"}
        ranked == sortedByType(b, Ascending(occupied))
        taken == Slice(ranked, Min(max_arrows, Len(ranked)))
    IN [i \in 1..Len(taken) |-> StyledArrow(square, taken[i], "green")]

\* show_attacked(board, square) of zugzwang/annotations.py: never raises
show_attacked(b, square) ==
    LET attacked == piece_at(b, square)
        attackerSquares == Ascending(attackers(b, IF b.turn = WHITE THEN BLACK ELSE WHITE, square))
        defenderSquares == Ascending(attackers(b, IF b.turn = WHITE THEN WHITE ELSE BLACK, square))
        shown == IF attacked # "none" /\ piece_type(attacked) = KING
                 THEN <<>> ELSE defenderSquares
    IN [raised |-> "none",
        arrows |-> [i \in 1..Len(attackerSquares) |->
                        StyledArrow(attackerSquares[i], square, "green")]
                   \o [i \in 1..Len(shown) |-> StyledArrow(shown[i], square, "red")]]

\* show_attacked(board, square) of zugzwang/utils.py: the first defender of an
\* empty square reads .piece_type of None
utils_show_attacked(b, square) ==
    LET attackerSquares == Ascending(attackers(b, IF b.turn = WHITE THEN BLACK ELSE WHITE, square))
        defenderSquares == Ascending(attackers(b, IF b.turn = WHITE THEN WHITE ELSE BLACK, square))
    IN IF defenderSquares # <<>> /\ piece_at(b, square) = "none"
       THEN [raised |-> "AttributeError", arrows |-> <<>>]
       ELSE [raised |-> "none",
             arrows |-> [i \in 1..Len(attackerSquares) |->
                             StyledArrow(attackerSquares[i], square, "green")]
                        \o (IF defenderSquares # <<>> /\ piece_type(piece_at(b, square)) = KING
                            THEN <<>>
                            ELSE [i \in 1..Len(defenderSquares) |->
                                      StyledArrow(defenderSquares[i], square, "red")])]

D4 == SquareAt(3, 3)
F4 == SquareAt(5, 3)
D6 == SquareAt(3, 5)
E6 == SquareAt(4, 5)
F6 == SquareAt(5, 5)
D7 == SquareAt(3, 6)

\* the pieces the caller may have on the board
Placements ==
    { <<D4, "Q">>, <<D4, "n">>, <<D6, "k">>, <<D6, "K">>, <<D6, "n">>, <<D7, "p">>,
      <<F6, "n">>, <<F6, "b">>, <<F4, "p">>, <<F4, "r">>, <<E6, "n">>, <<E6, "N">> }

\* the squares the caller asks about
Queried == {D4, D6}

NoCall == [fn |-> "none", square |-> 0, max_arrows |-> 0, raised |-> "none", arrows |-> <<>>]

\* the caller sets up a piece
PlacePiece(e) ==
    /\ piece_at(position, e[1]) = "none"
    /\ position' = [position EXCEPT !.pieces = @ \cup {e}]
    /\ lastCall' = NoCall
    /\ UNCHANGED <<narrVars, posVars, hashVars, pipeVars, sceneVars, shotVars, raceVars, pgnVars, puzzleVars, mixVars>>

\* the caller calls show_attacks(board, square, max_arrows)
ShowAttacks(square, max_arrows) ==
    /\ lastCall' = [fn |-> "show_attacks", square |-> square, max_arrows |-> max_arrows,
                    raised |-> "none",
                    arrows |-> show_attacks(position, square, max_arrows)]
    /\ UNCHANGED position
    /\ UNCHANGED <<narrVars, posVars, hashVars, pipeVars, sceneVars, shotVars, raceVars, pgnVars, puzzleVars, mixVars>>

\* the caller calls show_attacked(board, square) of zugzwang/annotations.py
ShowAttacked(square) ==
    /\ lastCall' = [fn |-> "show_attacked", square |-> square, max_arrows |-> 0]
                   @@ show_attacked(position, square)
    /\ UNCHANGED position
    /\ UNCHANGED <<narrVars, posVars, hashVars, pipeVars, sceneVars, shotVars, raceVars, pgnVars, puzzleVars, mixVars>>

\* the caller calls show_attacked(board, square) of zugzwang/utils.py
UtilsShowAttacked(square) ==
    /\ lastCall' = [fn |-> "utils.show_attacked", square |-> square, max_arrows |-> 0]
                   @@ utils_show_attacked(position, square)
    /\ UNCHANGED position
    /\ UNCHANGED <<narrVars, posVars, hashVars, pipeVars, sceneVars, shotVars, raceVars, pgnVars, puzzleVars, mixVars>>

(***************************************************************************)
(* StyledArrow.pgn: the annotation code of an arrow                         *)
(***************************************************************************)
FileLetters == <<"a", "b", "c", "d", "e", "f", "g", "h">>
RankDigits == <<"1", "2", "3", "4", "5", "6", "7", "8">>

\* chess.SQUARE_NAMES: a1 at index 0, b1 at 1, ..., h8 at 63
SQUARE_NAMES == [i \in 0..63 |-> <<FileLetters[(i % 8) + 1], RankDigits[(i \div 8) + 1]>>]

\* list indexing: a negative index counts from the end
IndexRaises(list, i) == i \notin DOMAIN list /\ i + 64 \notin DOMAIN list
Index(list, i) == IF i \in DOMAIN list THEN list[i] ELSE list[i + 64]

Colors == {"green", "red", "yellow", "blue", "purple"}

\* a changed palette: blue falls to the default
ColorLetter_NoBlue(color) ==
    CASE color = "red" -> "R"
      [] color = "yellow" -> "Y"
      [] OTHER -> "G"

\* the if / elif chain of _pgn_segment
ColorLetter(color) ==
    CASE color = "red" -> "R"
      [] color = "yellow" -> "Y"
      [] color = "blue" -> "B"
      [] OTHER -> "G"

\* StyledArrow._pgn_segment(start, end), for indices SQUARE_NAMES accepts
pgn_segment(a, start, end) ==
    <<ColorLetter(a.color)>> \o Index(SQUARE_NAMES, start) \o Index(SQUARE_NAMES, end)

Abs(x) == IF x < 0 THEN -x ELSE x

\* the row and the column pgn() computes for the intermediate square, for an
\* arrow that changes both row and column
intermediate_row(a) ==
    (a.tail \div 8) + (2 * ((a.head \div 8) - (a.tail \div 8)))
                          \div Abs((a.head \div 8) - (a.tail \div 8))

intermediate_col(a) ==
    (a.tail % 8) + (2 * ((a.head % 8) - (a.tail % 8))) \div Abs((a.head % 8) - (a.tail % 8))

\* StyledArrow.pgn(): the text returned, or the exception raised
pgn(a) ==
    LET tail_row == a.tail \div 8
        tail_col == a.tail % 8
        head_row == a.head \div 8
        head_col == a.head % 8
    IN IF Abs(tail_row - head_row) # 2 /\ Abs(tail_col - head_col) # 2
       THEN [raised |-> "none", text |-> pgn_segment(a, a.tail, a.head)]
       ELSE IF head_row = tail_row \/ head_col = tail_col
       THEN [raised |-> "ZeroDivisionError", text |-> <<>>]
       ELSE LET intermediate == intermediate_row(a) * 8 + intermediate_col(a)
            IN IF IndexRaises(SQUARE_NAMES, intermediate)
               THEN [raised |-> "IndexError", text |-> <<>>]
               ELSE [raised |-> "none",
                     text |-> pgn_segment(a, a.tail, intermediate)
                              \o pgn_segment(a, intermediate, a.head)]

\* an arrow the caller has constructed and not serialized yet
NoPgn(arrow) == [happened |-> FALSE, arrow |-> arrow, raised |-> "none", text |-> <<>>]

\* the caller serializes its arrow
Pgn ==
    /\ ~lastPgn.happened
    /\ lastPgn' = [happened |-> TRUE, arrow |-> lastPgn.arrow] @@ pgn(lastPgn.arrow)
    /\ UNCHANGED <<narrVars, posVars, hashVars, pipeVars, sceneVars, shotVars, raceVars, annotVars, puzzleVars, mixVars>>

(***************************************************************************)
(* Puzzle.difficulty                                                        *)
(***************************************************************************)
\* the ratings of the puzzles the caller constructs
Ratings == 0..4100

\* a changed chain: every comparison is <=
difficulty_InclusiveUpper(rating) ==
    IF rating <= 1200 THEN "easy"
    ELSE IF rating <= 1800 THEN "medium"
    ELSE IF rating <= 2400 THEN "hard"
    ELSE IF rating <= 3000 THEN "master"
    ELSE IF rating <= 4000 THEN "grandmaster"
    ELSE "?"

\* a changed chain: the branch of 1800 is missing
difficulty_NoHard(rating) ==
    IF rating < 1200 THEN "easy"
    ELSE IF rating < 2400 THEN "medium"
    ELSE IF rating < 3000 THEN "master"
    ELSE IF rating < 4000 THEN "grandmaster"
    ELSE "?"

\* Puzzle.difficulty
difficulty(rating) ==
    IF rating < 1200 THEN "easy"
    ELSE IF rating < 1800 THEN "medium"
    ELSE IF rating < 2400 THEN "hard"
    ELSE IF rating < 3000 THEN "master"
    ELSE IF rating < 4000 THEN "grandmaster"
    ELSE "?"

\* a Puzzle the caller has constructed and not asked the difficulty of yet
NoDifficulty(rating) == [happened |-> FALSE, rating |-> rating, difficulty |-> "none"]

\* the caller reads puzzle.difficulty
ReadDifficulty ==
    /\ ~lastDifficulty.happened
    /\ lastDifficulty' = [happened |-> TRUE, rating |-> lastDifficulty.rating,
                          difficulty |-> difficulty(lastDifficulty.rating)]
    /\ UNCHANGED lastOrientation
    /\ UNCHANGED <<narrVars, posVars, hashVars, pipeVars, sceneVars, shotVars, raceVars, annotVars, pgnVars, mixVars>>

\* The fields of a position notation.  Bishops, the b-file and castling rights
\* put the letter b in every field but the clocks.
Placements_fen ==
    { <<"8", "/", "8", "/", "8", "/", "8", "/", "8", "/", "8", "/", "2", "n", "5", "/", "R", "7">>,
      <<"b", "7", "/", "8", "/", "8", "/", "8", "/", "8", "/", "8", "/", "8", "/", "B", "6", "K">> }

Sides == {"w", "b"}

Castlings == { <<"-">>, <<"K", "Q", "k", "q">>, <<"b">> }

EnPassants == { <<"-">>, <<"b", "3">>, <<"b", "6">> }

Clocks == { <<"0">>, <<"1">>, <<"1", "2">> }

Separators == { <<" ">>, <<" ", " ">> }

FenFields ==
    [placement : Placements_fen, side : Sides, castling : Castlings,
     ep : EnPassants, halfmove : Clocks, fullmove : {<<"1">>, <<"2">>},
     sep : Separators]

\* the notation of the fields, joined by the separator
FenOf(f) ==
    f.placement \o f.sep \o <<f.side>> \o f.sep \o f.castling \o f.sep \o f.ep
        \o f.sep \o f.halfmove \o f.sep \o f.fullmove

\* a Puzzle the caller has constructed and not asked the orientation of yet
NoOrientation(f) ==
    [happened |-> FALSE, fields |-> f, fen |-> FenOf(f), raised |-> "none",
     orientation |-> WHITE]

\* the caller reads puzzle.orientation; fen.split()[1] raises on a notation of
\* fewer than two fields
ReadOrientation ==
    /\ ~lastOrientation.happened
    /\ lastOrientation' =
          IF Len(split(lastOrientation.fen)) < 2
          THEN [lastOrientation EXCEPT !.happened = TRUE, !.raised = "IndexError"]
          ELSE [lastOrientation EXCEPT !.happened = TRUE,
                   !.orientation = orientation(Puzzle("cSRB1", lastOrientation.fen, 1946))]
    /\ UNCHANGED lastDifficulty
    /\ UNCHANGED <<narrVars, posVars, hashVars, pipeVars, sceneVars, shotVars, raceVars, annotVars, pgnVars, mixVars>>

(***************************************************************************)
(* The composition of the final video from the scene clips and the          *)
(* background tracks, in durations (whole time units)                       *)
(***************************************************************************)
RECURSIVE SumDurations(_)
SumDurations(ds) == IF ds = <<>> THEN 0 ELSE Head(ds) + SumDurations(Tail(ds))

\* a scene clip as VideoFileClip loads it: the clip and its audio both have
\* the duration of the file
LoadedClip(d) == [duration |-> d, audio |-> [duration |-> d]]

\* moviepy.editor.concatenate_audioclips / concatenate_videoclips
concatenate(clips) == [duration |-> SumDurations([i \in 1..Len(clips) |-> clips[i].duration])]

\* a changed audio_loop: the repeated track is not cut
audio_loop_Whole(clip, duration) ==
    [duration |-> ((duration \div clip.duration) + 1) * clip.duration,
     material |-> ((duration \div clip.duration) + 1) * clip.duration]

\* AudioClip.audio_loop(duration=...): int(duration / clip.duration) + 1
\* repetitions, cut to the duration
audio_loop(clip, duration) ==
    [duration |-> duration,
     material |-> ((duration \div clip.duration) + 1) * clip.duration]

set_duration(clip, duration) == [clip EXCEPT !.duration = duration]

Max(a, b) == IF a > b THEN a ELSE b

\* CompositeAudioClip / CompositeVideoClip of two clips starting at 0: it
\* lasts as long as the longer one
Composite(a, b) == [duration |-> Max(a.duration, b.duration)]

\* the composition in PuzzleVideo.generate
Compose(clips, background_video, music) ==
    LET narration_audio == concatenate([i \in 1..Len(clips) |-> clips[i].audio])
        background_music == audio_loop(music, narration_audio.duration)
        final_audio == Composite(set_duration(background_music, narration_audio.duration),
                                 narration_audio)
        joined == concatenate(clips)
        composed == Composite(set_duration(background_video, joined.duration), joined)
    IN [duration |-> composed.duration, audio |-> final_audio,
        background_music |-> background_music]

\* the durations of the scene clips: one clip up to MaxScenes clips
RECURSIVE ClipDurations(_)
ClipDurations(n) ==
    IF n = 0 THEN {<<>>}
    ELSE {Append(ds, d) : ds \in ClipDurations(n - 1), d \in 1..MaxDuration}
         \cup ClipDurations(n - 1)

NoMix(durations, music) ==
    [happened |-> FALSE, durations |-> durations, music |-> music,
     final |-> [duration |-> 0, audio |-> [duration |-> 0],
                background_music |-> [duration |-> 0, material |-> 0]]]

\* generate() composes the final video from the clips it has loaded
Mix ==
    /\ ~lastMix.happened
    /\ lastMix' = [lastMix EXCEPT
           !.happened = TRUE,
           !.final = Compose([i \in 1..Len(lastMix.durations) |->
                                  LoadedClip(lastMix.durations[i])],
                             [duration |-> 1], [duration |-> lastMix.music])]
    /\ UNCHANGED <<narrVars, posVars, hashVars, pipeVars, sceneVars, shotVars, raceVars, annotVars, pgnVars, puzzleVars>>

InitPosVars ==
    /\ board = StartBoard
    /\ scopes = <<>>
    /\ exc = "none"
    /\ lastExit = NoExit

InitNarrVars ==
    /\ narrations = <<>>
    /\ audioFiles = {}
    /\ synthLog = <<>>
    /\ genLog = <<>>

InitHashVars ==
    /\ videos = <<PuzzleVideo(MetaA), PuzzleVideo(MetaB)>>
    /\ lastOp = NoOp

InitPipeVars ==
    /\ video = PuzzleVideo(MetaA)
    /\ phase = "building"
    /\ constructed = 1
    /\ imageFiles = NoFiles
    /\ videoFiles = NoFiles
    /\ failedRuns = 0
    /\ completed = {}
    /\ last = NoRun

InitSceneVars ==
    /\ lastScene = NoSceneRun
    /\ rasterized = {}
    /\ rasterRepeated = FALSE

InitShotVars ==
    /\ shots = <<>>
    /\ annotations = <<>>

InitRaceVars ==
    /\ procs = [p \in Procs |-> Idle]
    /\ raceLog = <<>>

InitAnnotVars ==
    /\ position = [pieces |-> {}, turn |-> WHITE]
    /\ lastCall = NoCall

InitPgnVars == lastPgn = NoPgn(StyledArrow(A1, C2, "green"))

\* the starting position of the script: White to move
StartFen ==
    [placement |-> <<"8", "/", "8", "/", "8", "/", "8", "/", "8", "/", "8", "/", "2", "n", "5", "/", "R", "7">>,
     side |-> "w", castling |-> <<"-">>, ep |-> <<"-">>, halfmove |-> <<"0">>,
     fullmove |-> <<"1">>, sep |-> <<" ">>]

InitPuzzleVars ==
    /\ lastDifficulty = NoDifficulty(1200)
    /\ lastOrientation = NoOrientation(StartFen)

InitMixVars == lastMix = NoMix(<<1>>, 1)

Init == /\ InitNarrVars /\ InitPosVars /\ InitHashVars /\ InitPipeVars
        /\ InitSceneVars /\ InitShotVars /\ InitRaceVars /\ InitAnnotVars /\ InitPgnVars /\ InitPuzzleVars /\ InitMixVars

InitNarr == Init

NextNarr ==
    \/ \E t \in RawTexts, v \in Voices : NewNarration(t, v)
    \/ \E i \in 1..Len(narrations), ok \in BOOLEAN : NarrationGenerate(i, ok)

SpecNarr == InitNarr /\ [][NextNarr]_vars

InitPos == Init

NextPos ==
    \/ \E m \in Moves : PositionEnter(m)
    \/ \E k \in 1..Len(scopes) : PositionExit(k)
    \/ \E m \in Moves : ScriptPush(m)
    \/ ScriptPop
    \/ BlockRaise

SpecPos == InitPos /\ [][NextPos]_vars

InitHash == Init

NextHash ==
    \/ \E k \in 1..2, args \in ScenePool : AddScene(k, args)
    \/ \E k \in 1..2, i \in 1..MaxScenes : RemoveScene(k, i)
    \/ \E k \in 1..2, i, j \in 1..MaxScenes : SwapScenes(k, i, j)

SpecHash == InitHash /\ [][NextHash]_vars

InitPipe == Init

NextPipe ==
    \/ \E meta \in {MetaA} : NewPuzzleVideo(meta)
    \/ \E args \in ScriptScenes : VideoAddScene(args)
    \/ \E upload \in BOOLEAN : Generate(upload)

SpecPipe == InitPipe /\ [][NextPipe]_vars

InitScene == Init

NextScene == \E scene \in GeneratedScenes : SceneGenerateCall(scene)

SpecScene == InitScene /\ [][NextScene]_vars

InitRerun == Init

NextRerun == \E scene \in RerunScenes : SceneGenerateCall(scene)

SpecRerun == InitRerun /\ [][NextRerun]_vars

InitNested == Init

\* Position scopes entered and exited innermost first, with add_scene calls
\* in the blocks; the script plays moves of its own only outside every scope
NextNested ==
    \/ \E m \in Moves : PositionEnter(m)
    \/ scopes # <<>> /\ PositionExit(Len(scopes))
    \/ \E m \in Moves : scopes = <<>> /\ ScriptPush(m)
    \/ ScriptAddScene

SpecNested == InitNested /\ [][NextNested]_vars

InitScript == Init

NextScript ==
    \/ \E m \in Moves : PositionEnter(m)
    \/ \E k \in 1..Len(scopes) : PositionExit(k)
    \/ ScriptAddScene

SpecScript == InitScript /\ [][NextScript]_vars

InitArrows == Init

NextArrows ==
    \/ ScriptAddScene
    \/ \E arrow \in ScriptArrows : AppendArrow(arrow)
    \/ \E i \in 1..MaxArrows : RemoveArrow(i)
    \/ ReverseArrows

SpecArrows == InitArrows /\ [][NextArrows]_vars

InitRace == Init

NextRace ==
    \/ \E p \in Procs, kind \in {"narration", "scene", "video"} : RaceStart(p, kind)
    \/ \E p \in Procs : RaceCheck(p)
    \/ \E p \in Procs : RaceCreate(p)
    \/ \E p \in Procs : RaceLoad(p)

SpecRace == InitRace /\ [][NextRace]_vars

\* the caller's board may have either side to move
InitAttacks ==
    /\ InitNarrVars /\ InitPosVars /\ InitHashVars /\ InitPipeVars
    /\ InitSceneVars /\ InitShotVars /\ InitRaceVars /\ InitPgnVars /\ InitPuzzleVars /\ InitMixVars
    /\ \E turn \in {WHITE, BLACK} : position = [pieces |-> {}, turn |-> turn]
    /\ lastCall = NoCall

NextAttacks ==
    \/ \E e \in Placements : PlacePiece(e)
    \/ \E square \in Queried, max_arrows \in 0..MaxLimit : ShowAttacks(square, max_arrows)
    \/ \E square \in Queried : ShowAttacked(square)
    \/ \E square \in Queried : UtilsShowAttacked(square)

SpecAttacks == InitAttacks /\ [][NextAttacks]_vars

\* the caller's arrow is any arrow between two squares of the board
InitPgn ==
    /\ InitNarrVars /\ InitPosVars /\ InitHashVars /\ InitPipeVars
    /\ InitSceneVars /\ InitShotVars /\ InitRaceVars /\ InitAnnotVars /\ InitPuzzleVars /\ InitMixVars
    /\ \E tail \in 0..63, head \in 0..63, color \in Colors :
           lastPgn = NoPgn(StyledArrow(tail, head, color))

NextPgn == Pgn

SpecPgn == InitPgn /\ [][NextPgn]_vars

\* the caller's puzzle has any rating
InitPuzzle ==
    /\ InitNarrVars /\ InitPosVars /\ InitHashVars /\ InitPipeVars
    /\ InitSceneVars /\ InitShotVars /\ InitRaceVars /\ InitAnnotVars /\ InitPgnVars /\ InitMixVars
    /\ \E rating \in Ratings : lastDifficulty = NoDifficulty(rating)
    /\ lastOrientation = NoOrientation(StartFen)

\* the caller's puzzle has any starting position
InitOrient ==
    /\ InitNarrVars /\ InitPosVars /\ InitHashVars /\ InitPipeVars
    /\ InitSceneVars /\ InitShotVars /\ InitRaceVars /\ InitAnnotVars /\ InitPgnVars /\ InitMixVars
    /\ lastDifficulty = NoDifficulty(1200)
    /\ \E f \in FenFields : lastOrientation = NoOrientation(f)

NextOrient == ReadOrientation

SpecOrient == InitOrient /\ [][NextOrient]_vars

NextPuzzle == ReadDifficulty

SpecPuzzle == InitPuzzle /\ [][NextPuzzle]_vars

\* the scene clips and the background music have any durations
InitMix ==
    /\ InitNarrVars /\ InitPosVars /\ InitHashVars /\ InitPipeVars
    /\ InitSceneVars /\ InitShotVars /\ InitRaceVars /\ InitAnnotVars /\ InitPgnVars
    /\ InitPuzzleVars
    /\ \E durations \in ClipDurations(MaxScenes) \ {<<>>}, music \in 1..MaxDuration :
           lastMix = NoMix(durations, music)

NextMix == Mix

SpecMix == InitMix /\ [][NextMix]_vars

SameNarration(a, b) == a.text = b.text /\ a.voice_id = b.voice_id

\* C1: for every text and voice, a call of the speech synthesis is preceded by
\* no successful synthesis call for the same text and voice: over generate()
\* calls whose synthesis succeeds, on one or on several Narration objects,
\* the synthesis is invoked at most once.
C1_SynthesisAtMostOnce ==
    \A i, j \in 1..Len(synthLog) :
        (i < j /\ SameNarration(synthLog[i], synthLog[j])) => ~synthLog[i].ok

\* two generate() calls on distinct objects with one text and voice, the first
\* synthesizing with success
C1_Witness ==
    \E i, j \in 1..Len(genLog) :
        /\ i < j /\ genLog[i].obj # genLog[j].obj
        /\ SameNarration(genLog[i], genLog[j])
        /\ \E k \in 1..Len(synthLog) : SameNarration(synthLog[k], genLog[i]) /\ synthLog[k].ok
        /\ Cardinality({k \in 1..Len(synthLog) : SameNarration(synthLog[k], genLog[i])}) = 1

\* C2: the audio path is a function of (voice, normalized text) alone: every
\* path computed by some generate() call equals the path computed by any
\* other call for the same text and voice, and equals the path computed now,
\* whatever the cache held at either time.
C2_AudioPathPure ==
    /\ \A i, j \in 1..Len(genLog) :
           SameNarration(genLog[i], genLog[j]) => genLog[i].path = genLog[j].path
    /\ \A i \in 1..Len(genLog) : audio_path(narrations[genLog[i].obj]) = genLog[i].path
    /\ \A i, j \in 1..Len(narrations) :
           SameNarration(narrations[i], narrations[j])
               => audio_path(narrations[i]) = audio_path(narrations[j])

\* the path of one text and voice computed on two objects, before and after
\* its file was cached
C2_Witness ==
    \E i, j \in 1..Len(genLog) :
        /\ i < j /\ genLog[i].obj # genLog[j].obj
        /\ SameNarration(genLog[i], genLog[j])
        /\ ~genLog[i].cached /\ genLog[j].cached

\* C4: a Position scope whose block left the move stack balanced (at the exit
\* the stack is one move deeper than before the entry and never went below
\* that depth in between) leaves the board, position notation and move
\* stack, as it was just before the entry.
C4_EnterExitRestoresBoard ==
    (lastExit.happened /\ lastExit.balanced)
        => /\ board = lastExit.snap
           /\ fen(board) = fen(lastExit.snap)
           /\ board.move_stack = lastExit.snap.move_stack

\* a scope entered on a board with a move already played exits in order,
\* without an error, after a balanced block
C4_Witness ==
    /\ lastExit.happened /\ lastExit.balanced
    /\ ~lastExit.outOfOrder /\ lastExit.excBefore = "none"
    /\ lastExit.snap.move_stack # <<>>
    /\ fen(lastExit.snap) # fen(push(lastExit.snap, lastExit.move))
    /\ scopes # <<>>

C6_ErrorExitRevertsAndPropagates ==
    (lastExit.happened /\ lastExit.excBefore # "none" /\ ~lastExit.raised)
        => /\ Len(lastExit.reverted) = 1
           /\ Len(board.move_stack) = lastExit.depthBefore - 1
           /\ lastExit.excAfter = lastExit.excBefore
           /\ exc = lastExit.excBefore
           /\ lastExit.balanced => board = lastExit.snap

\* a block raises and its scope exits: the board is back and the error goes on
C6_Witness ==
    /\ lastExit.happened /\ lastExit.excBefore = "BlockError"
    /\ lastExit.balanced /\ board = lastExit.snap
    /\ exc = "BlockError"
    /\ scopes # <<>>

AllScenes == UNION { {videos[k].scenes[i] : i \in 1..Len(videos[k].scenes)} : k \in 1..2 }

Count(seq, x) == Cardinality({i \in 1..Len(seq) : seq[i] = x})

IsPermutation(a, b) ==
    /\ Len(a) = Len(b)
    /\ \A i \in 1..Len(a) : Count(a, a[i]) = Count(b, a[i])

\* C3: two Scenes with the same narration hash, the same position notation
\* and the same annotations, listed in whatever order, have the same
\* video hash.
C3_AnnotationOrderIrrelevant ==
    \A s, t \in AllScenes :
        ( /\ audio_hash(s.narration) = audio_hash(t.narration)
          /\ fen(s.board) = fen(t.board)
          /\ IsPermutation(s.arrows, t.arrows) )
            => SceneVideoHash(s) = SceneVideoHash(t)

\* C8: the video hash depends on the ordered scene hashes alone: two
\* PuzzleVideos with equal lists of scene hashes have equal video hashes,
\* whatever their title, description, tags, category, voice and background
\* tracks, and the hash of a video whose list was not edited is the same
\* when computed again.
C8_HashOfSceneHashesOnly ==
    /\ \A k, l \in 1..2 :
           SceneHashes(videos[k]) = SceneHashes(videos[l])
               => video_hash(videos[k]) = video_hash(videos[l])
    /\ lastOp.kind # "none" => lastOp.othersSame

\* two videos that differ in all their metadata and in their Scene objects,
\* with the same two scene hashes in the same order
C8_Witness ==
    /\ Len(videos[1].scenes) = 2
    /\ SceneHashes(videos[1]) = SceneHashes(videos[2])
    /\ videos[1].scenes[1].name # videos[2].scenes[1].name
    /\ videos[1].title # videos[2].title
    /\ videos[1].voice_id # videos[2].voice_id
    /\ videos[1].background_music # videos[2].background_music

\* C9 as stated: every append, removal and exchange of two scenes changes the
\* video hash.
C9_EveryEditChangesHash ==
    lastOp.kind \in {"append", "remove", "swap"} => lastOp.changed

\* C9, amended: an append and a removal change the video hash; the exchange
\* of two scenes changes it exactly when their scene hashes differ.
C9_EditChangesHash ==
    /\ lastOp.kind \in {"append", "remove"} => lastOp.changed
    /\ lastOp.kind = "swap" => (lastOp.changed <=> lastOp.differ)

\* two scenes with different hashes were exchanged and the hash changed
C9_Witness ==
    /\ lastOp.kind = "swap" /\ lastOp.differ /\ lastOp.changed
    /\ Len(videos[lastOp.video].scenes) = 2

\* the collaborator calls of the last generate() of a kind
CallsOf(kinds) == {i \in 1..Len(last.calls) : last.calls[i].kind \in kinds}

\* C7: a construction equal to one whose generate() returned before has the
\* narration, board-image, scene-clip and final-artifact paths that one had,
\* and its generate() calls speech synthesis, board rasterization and video
\* encoding zero times.
C7_RebuildIsFree ==
    /\ \A c \in completed : c.video = video => c.paths = CachePaths(video)
    /\ (last.happened /\ last.completedBefore)
          => CallsOf({"synthesis", "rasterization", "encoding"}) = {}

\* C7 happens: a second construction with the two scenes of one that
\* completed before has generated and returned
C7_Witness ==
    /\ last.happened /\ last.first /\ last.completedBefore /\ last.returned
    /\ constructed = 2
    /\ Len(video.scenes) = 2

\* C10: generate(upload) calls the publish collaborator if and only if upload
\* is requested and the final artifact exists at the hash-derived path on
\* entry; then once, on that path, with visibility public; a call that builds
\* the artifact does not publish, nor does generate(upload=False).
C10_PublishOnlyCachedOnRequest ==
    last.happened =>
        LET pub == CallsOf({"publish"}) IN
        /\ (pub # {}) <=> (last.upload /\ last.existed)
        /\ Cardinality(pub) <= 1
        /\ \A i \in pub : /\ last.calls[i].path = video_path(video)
                           /\ last.calls[i].args.privacy_status = "public"
        /\ (\E i \in CallsOf({"encoding"}) : last.calls[i].path = video_path(video))
              => pub = {}
        /\ ~last.upload => pub = {}

\* C10 happens: a generate(upload=True) that found the artifact has published
\* it, and one that did not find it has built it
C10_Witness ==
    /\ last.happened /\ last.upload /\ last.existed
    /\ CallsOf({"publish"}) # {}
    /\ last.returned

\* C11: a generate() run that found no artifact and raised, at whatever
\* step of the build, leaves no file at the hash-derived path of the final
\* artifact.
C11_FailedRunLeavesNoArtifact ==
    (last.happened /\ ~last.returned /\ ~last.existed)
        => ~Exists(videoFiles, video_path(video))

\* C13: when generate() returns, a file is at the hash-derived path of the
\* scene list, and the last thing the call did was to load the returned
\* handle from that path.
C13_ReturnsArtifactAtHashPath ==
    (last.happened /\ last.returned) =>
        /\ Exists(videoFiles, video_path(video))
        /\ last.calls # <<>>
        /\ LET c == last.calls[Len(last.calls)] IN
             /\ c.kind = "load"
             /\ c.path = video_path(video)
             /\ c.args = [class |-> "VideoFileClip"]

\* C13 happens after a fresh build of two scenes (and, in other states, on
\* a cache hit)
C13_Witness ==
    /\ last.happened /\ last.returned /\ ~last.existed
    /\ Len(video.scenes) = 2
    /\ CallsOf({"encoding"}) # {}

\* C14: when generate() returns, final.mp4 is in the output directory and
\* is a copy of the artifact at the hash-derived path of the scene list.
C14_FinalCopyIsCurrent ==
    (last.happened /\ last.returned) =>
        /\ Exists(videoFiles, FinalCopyPath(video))
        /\ videoFiles[FinalCopyPath(video)] = videoFiles[video_path(video)]

\* C12: no step removes or changes a narration audio file, a board image or
\* a scene clip that is there, and a generate() calls neither synthesis,
\* rasterization nor scene encoding for a path that had a file when it was
\* entered: what a failed run has written is there for the next run, which
\* does not make it again.
C12_CachedItemsKeptAndReused ==
    [][ /\ audioFiles \subseteq audioFiles'
        /\ \A p \in DOMAIN imageFiles :
               p \in DOMAIN imageFiles' /\ imageFiles'[p] = imageFiles[p]
        /\ \A p \in DOMAIN videoFiles :
               p # FinalCopyPath(video)
                   => (p \in DOMAIN videoFiles' /\ videoFiles'[p] = videoFiles[p])
        /\ last'.happened =>
               \A i \in 1..Len(last'.calls) :
                   LET c == last'.calls[i] IN
                   /\ c.kind = "synthesis" => c.path \notin audioFiles
                   /\ c.kind = "rasterization" => c.path \notin DOMAIN imageFiles
                   /\ (c.kind = "encoding" /\ c.path # FinalCopyPath(video))
                         => c.path \notin DOMAIN videoFiles ]_vars

\* C12 happens: the only run before raised after it had written the audio
\* files and the images of both scenes, and the run of the second
\* construction has encoded without synthesizing or rasterizing again
C12_Witness ==
    /\ failedRuns = 1 /\ constructed = 2
    /\ last.happened /\ last.first /\ last.returned /\ ~last.completedBefore
    /\ Cardinality(completed) = 1
    /\ Len(video.scenes) = 2
    /\ CallsOf({"synthesis", "rasterization"}) = {}
    /\ CallsOf({"encoding"}) # {}

\* the collaborator calls of the last Scene.generate() of a kind
SceneCallsOf(kinds) ==
    {i \in 1..Len(lastScene.calls) : lastScene.calls[i].kind \in kinds}

\* C17: a Scene.generate() that finds a file at the scene's video path calls
\* neither synthesis, rasterization nor encoding and writes no file; a
\* Scene.generate() that returns, cached or built, has loaded the returned
\* clip from the scene's video path as its last call.
C17_CachedSceneDoesNoWork ==
    /\ (lastScene.happened /\ lastScene.existed) =>
          /\ SceneCallsOf({"synthesis", "rasterization", "encoding"}) = {}
          /\ ~lastScene.wrote
    /\ (lastScene.happened /\ lastScene.returned) =>
          /\ lastScene.calls # <<>>
          /\ LET c == lastScene.calls[Len(lastScene.calls)] IN
               /\ c.kind = "load"
               /\ c.path = SceneVideoPath(lastScene.scene)
               /\ c.args = [class |-> "VideoFileClip"]

\* C17 happens: a scene with two arrows was generated from its cached clip
C17_Witness ==
    /\ lastScene.happened /\ lastScene.existed /\ lastScene.returned
    /\ Len(lastScene.scene.arrows) = 2

\* C18: the file a Scene.generate() finds at its video path was made from a
\* scene with the title, narration text, voice, position, annotations,
\* orientation and pause of the calling scene.
C18_CacheHitHasSameContent ==
    (lastScene.happened /\ lastScene.existed) =>
        LET scene == lastScene.scene
            f == videoFiles[SceneVideoPath(scene)]
        IN /\ f.name = scene.name
           /\ f.caption = scene.narration.text
           /\ f.audio = audio_path(scene.narration)
           /\ f.image.board = fen(scene.board)
           /\ {f.image.arrows[i] : i \in 1..Len(f.image.arrows)}
                = {scene.arrows[i] : i \in 1..Len(scene.arrows)}
           /\ f.image.orientation = scene.orientation
           /\ f.pause = scene.pause_duration

\* the clip file the last Scene.generate() returned
ReturnedClip == videoFiles[SceneVideoPath(lastScene.scene)]

\* C31: the clip a Scene.generate() returns, built or found in the cache,
\* lasts as long as the scene's narration audio plus the scene's own pause.
C31_ClipLastsNarrationPlusPause ==
    (lastScene.happened /\ lastScene.returned /\ ReturnedClip.complete
       /\ ReturnedClip.audio = audio_path(lastScene.scene.narration)) =>
        ClipDuration(ReturnedClip)
            = [narration |-> audio_path(lastScene.scene.narration),
               pause |-> lastScene.scene.pause_duration]

\* the image the last Scene.generate() loaded as its board clip
LoadedImage == imageFiles[BoardClipPath(lastScene.scene)]

\* C34: the image file a Scene.generate() that builds its clip loads as the
\* board clip, rendered by this call or found, was rendered with the last
\* move, the orientation and the size of the calling scene.
C34_ReusedImageShowsOwnMove ==
    (lastScene.happened /\ lastScene.returned /\ ~lastScene.existed) =>
        /\ LoadedImage.lastmove = lastmove(lastScene.scene.board)
        /\ LoadedImage.orientation = lastScene.scene.orientation
        /\ LoadedImage.size = MetaA.background_video.w - 64

\* C19: two scenes of one directory with the same position notation and the
\* same set of annotations have the same image path, whatever their
\* narration, and the rasterizer is never called for a key (directory,
\* position notation, set of annotations) it was called for before.
C19_ImageKeyedByBoardAndAnnotations ==
    /\ \A s, t \in GeneratedScenes :
           (ImageKey(s) \in rasterized /\ ImageKey(s) = ImageKey(t))
               => BoardClipPath(s) = BoardClipPath(t)
    /\ ~rasterRepeated

\* C15: whatever the script has pushed on and popped off its board since,
\* by entering and leaving Position scopes, a Scene has the board it was
\* constructed with, and the video hash it had then.
C15_SceneBoardDecoupled ==
    \A i \in 1..Len(shots) :
        /\ CurrentScene(shots[i]).board = shots[i].scene.board
        /\ SceneVideoHash(CurrentScene(shots[i])) = shots[i].video_hash

\* C15 happens: a Scene was constructed inside a Position scope, the scope
\* was left, and the script's board is no longer the Scene's
C15_Witness ==
    /\ Len(shots) = 1
    /\ shots[1].scene.board.move_stack # <<>>
    /\ lastExit.happened
    /\ fen(board) # fen(shots[1].scene.board)

\* C16: the video hash and the video path of a Scene are those it had at
\* construction, whatever the caller has done since to the list of arrows
\* it passed.
C16_SceneHashFixed ==
    \A i \in 1..Len(shots) :
        /\ SceneVideoHash(CurrentScene(shots[i])) = shots[i].video_hash
        /\ SceneVideoPath(CurrentScene(shots[i])) = shots[i].video_path

\* C20: nothing stands between the existence check and the creation: every
\* process that saw no file at its check and has gone on has called the
\* collaborator and written the path, whatever the other process did in
\* between -- so two processes that both saw no file both call it.
C20_CheckThenCreateUnguarded ==
    \A p \in Procs :
        (procs[p].sawAbsent /\ procs[p].pc \in {"load", "done"})
            => /\ \E i \in 1..Len(raceLog) :
                    /\ raceLog[i].proc = p
                    /\ raceLog[i].path = RacePath(procs[p].kind)
               /\ IF procs[p].kind = "narration"
                  THEN RacePath("narration") \in audioFiles
                  ELSE Exists(videoFiles, RacePath(procs[p].kind))

\* C20 happens: both processes generated the same scene, both passed the
\* check, both called the encoder and both wrote the scene's video path
C20_Witness ==
    /\ \A p \in Procs : /\ procs[p].pc = "done"
                         /\ procs[p].kind = "scene"
                         /\ procs[p].sawAbsent
    /\ Len(raceLog) = 2
    /\ raceLog[1].proc # raceLog[2].proc
    /\ raceLog[1].path = raceLog[2].path

\* the material value of a piece: pawn 1, knight and bishop 3, rook 5, queen 9,
\* and the king above them all
MaterialValue(symbol) ==
    CASE symbol \in {"P", "p"} -> 1
      [] symbol \in {"N", "n", "B", "b"} -> 3
      [] symbol \in {"R", "r"} -> 5
      [] symbol \in {"Q", "q"} -> 9
      [] symbol \in {"K", "k"} -> 10

\* the occupied squares attacked from a square
Targets(b, square) == {s \in attacks(b, square) : piece_at(b, s) # "none"}

\* C21: show_attacks with a limit >= 0 returns min(limit, n) annotations for the
\* n occupied squares attacked from the square: green, from the square, each to
\* another target, in descending order of the target's value, and no target
\* left out is worth more than one returned.
C21_ThreatenedTargetsRanked ==
    lastCall.fn = "show_attacks" =>
        LET targets == Targets(position, lastCall.square)
            arrows == lastCall.arrows
            worth(s) == MaterialValue(piece_at(position, s))
        IN /\ Len(arrows) = Min(lastCall.max_arrows, Cardinality(targets))
           /\ \A i \in 1..Len(arrows) :
                  /\ arrows[i].tail = lastCall.square
                  /\ arrows[i].head \in targets
                  /\ arrows[i].color = "green"
           /\ \A i, j \in 1..Len(arrows) :
                  i < j => /\ arrows[i].head # arrows[j].head
                           /\ worth(arrows[i].head) >= worth(arrows[j].head)
           /\ \A t \in targets :
                  (\A i \in 1..Len(arrows) : arrows[i].head # t)
                      => \A i \in 1..Len(arrows) : worth(t) <= worth(arrows[i].head)

\* C21 happens: a limit of 2 on a square that attacks three pieces of three
\* different values
C21_Witness ==
    /\ lastCall.fn = "show_attacks"
    /\ lastCall.max_arrows = 2
    /\ Len(lastCall.arrows) = 2
    /\ Cardinality(Targets(position, lastCall.square)) = 3
    /\ Cardinality({MaterialValue(piece_at(position, s)) :
                        s \in Targets(position, lastCall.square)}) = 3

\* the targets of the annotations of the last show_attacks call, in order
Heads == [i \in 1..Len(lastCall.arrows) |-> lastCall.arrows[i].head]

\* the targets are ordered by square wherever rank(piece) ties, and no target
\* left out ties with a returned one of a higher square
TiesAscending(rank(_)) ==
    LET at(s) == rank(piece_at(position, s))
        left == Targets(position, lastCall.square) \ {Heads[i] : i \in 1..Len(Heads)}
    IN /\ \A i, j \in 1..Len(Heads) :
              (i < j /\ at(Heads[i]) = at(Heads[j])) => Heads[i] < Heads[j]
       /\ \A i \in 1..Len(Heads) : \A s \in left :
              at(s) = at(Heads[i]) => Heads[i] < s

\* C35 as stated: among the targets of equal material value, a knight and a
\* bishop included, show_attacks returns the lower square first.
C35_TiesAscendingAsStated ==
    lastCall.fn = "show_attacks" => TiesAscending(MaterialValue)

\* C35: among the targets of the same piece type, show_attacks returns the
\* lower square first and leaves out no lower square for a higher one, so with
\* C21 the result is fixed by the board, the square and the limit.
C35_TiesAscending ==
    lastCall.fn = "show_attacks" => TiesAscending(piece_type)

\* C35 happens: two knights attacked from one square, both returned; and two
\* pawns attacked from one square with a limit that returns one of them
C35_Witness ==
    /\ lastCall.fn = "show_attacks"
    /\ \/ /\ Len(Heads) = 2
          /\ piece_at(position, Heads[1]) = "n" /\ piece_at(position, Heads[2]) = "n"
       \/ /\ Len(Heads) = 1 /\ piece_at(position, Heads[1]) = "p"
          /\ Cardinality({s \in Targets(position, lastCall.square) :
                              piece_at(position, s) = "p"}) = 2

\* an arrow whose row and column offsets are 1 and 2, in either order
KnightShaped(a) ==
    {Abs((a.tail \div 8) - (a.head \div 8)), Abs((a.tail % 8) - (a.head % 8))} = {1, 2}

\* C22: a knight-shaped annotation serializes as two segments, from the start
\* square to an intermediate square and from that square to the end square,
\* never as one segment.
C22_KnightShapedIsTwoSegments ==
    (lastPgn.happened /\ KnightShaped(lastPgn.arrow)) =>
        /\ lastPgn.raised = "none"
        /\ Len(lastPgn.text) = 10
        /\ SubSeq(lastPgn.text, 2, 3) = SQUARE_NAMES[lastPgn.arrow.tail]
        /\ SubSeq(lastPgn.text, 4, 5) = SubSeq(lastPgn.text, 7, 8)
        /\ SubSeq(lastPgn.text, 9, 10) = SQUARE_NAMES[lastPgn.arrow.head]

\* C30: the color letter of every segment is R for red, Y for yellow, B for
\* blue and G for any other color.
C30_ColorLetters ==
    (lastPgn.happened /\ lastPgn.raised = "none") =>
        LET letter == CASE lastPgn.arrow.color = "red" -> "R"
                        [] lastPgn.arrow.color = "yellow" -> "Y"
                        [] lastPgn.arrow.color = "blue" -> "B"
                        [] OTHER -> "G"
        IN /\ Len(lastPgn.text) \in {5, 10}
           /\ \A i \in {1, 6} : i <= Len(lastPgn.text) => lastPgn.text[i] = letter

\* C30 happens: a blue arrow of two segments has been serialized
C30_Witness ==
    /\ lastPgn.happened
    /\ lastPgn.raised = "none"
    /\ lastPgn.arrow.color = "blue"
    /\ Len(lastPgn.text) = 10

\* C23: the tier is a step function of the rating with steps at 1200, 1800,
\* 2400, 3000 and 4000, each step value in the higher tier; from 4000 on it is
\* the unknown tier, which the program writes "?".
C23_DifficultySteps ==
    lastDifficulty.happened =>
        LET rating == lastDifficulty.rating
            tier == lastDifficulty.difficulty
        IN /\ (rating < 1200) <=> (tier = "easy")
           /\ (rating \in 1200..1799) <=> (tier = "medium")
           /\ (rating \in 1800..2399) <=> (tier = "hard")
           /\ (rating \in 2400..2999) <=> (tier = "master")
           /\ (rating \in 3000..3999) <=> (tier = "grandmaster")
           /\ (rating >= 4000) <=> (tier = "?")

\* C23 happens: the difficulty of a puzzle rated exactly 4000 has been read
C23_Witness == lastDifficulty.happened /\ lastDifficulty.rating = 4000

\* C24 as stated: 1199 is easy, 1200 is medium and 2399 is medium.
C24_MappingAsStated ==
    lastDifficulty.happened =>
        /\ lastDifficulty.rating = 1199 => lastDifficulty.difficulty = "easy"
        /\ lastDifficulty.rating = 1200 => lastDifficulty.difficulty = "medium"
        /\ lastDifficulty.rating = 2399 => lastDifficulty.difficulty = "medium"

\* C24, amended: 1199 is easy, 1200 is medium and 2399 is hard.
C24_Mapping ==
    lastDifficulty.happened =>
        /\ lastDifficulty.rating = 1199 => lastDifficulty.difficulty = "easy"
        /\ lastDifficulty.rating = 1200 => lastDifficulty.difficulty = "medium"
        /\ lastDifficulty.rating = 2399 => lastDifficulty.difficulty = "hard"

\* C24 happens: the difficulty of a puzzle rated 2399 has been read
C24_Witness == lastDifficulty.happened /\ lastDifficulty.rating = 2399

\* C36: Puzzle.orientation is White when the side-to-move field of the
\* starting position says Black and Black when it says White, whatever the
\* other fields of the notation are.
C36_OrientationIsSideNotToMove ==
    lastOrientation.happened =>
        /\ lastOrientation.raised = "none"
        /\ lastOrientation.fields.side = "b" => lastOrientation.orientation = WHITE
        /\ lastOrientation.fields.side = "w" => lastOrientation.orientation = BLACK

\* C36 happens: the orientation was read of a position with Black to move
\* and of one with White to move that has the letter b as another field
C36_Witness ==
    /\ lastOrientation.happened
    /\ \/ lastOrientation.fields.side = "b"
       \/ lastOrientation.fields.side = "w" /\ lastOrientation.fields.castling = <<"b">>

\* C25: the order of annotations is total: of two different annotations
\* exactly one is less than the other.
C25_AnnotationOrderTotal ==
    \A i, j \in 1..Len(annotations) :
        annotations[i] # annotations[j]
            => (lt(annotations[i], annotations[j]) <=> ~lt(annotations[j], annotations[i]))

\* the annotations show_attacked is to return for a square: green from every
\* attacking piece of the side not to move, red from every attacking piece of
\* the side to move unless a king stands on the square
ExpectedAttacked(b, square) ==
    {StyledArrow(s, square, "green") : s \in attackers(b, ~b.turn, square)}
        \cup (IF piece_at(b, square) \in {"K", "k"} THEN {}
              ELSE {StyledArrow(s, square, "red") : s \in attackers(b, b.turn, square)})

\* C26: show_attacked, of either module, returns exactly the attackers in
\* green and the defenders in red, no defenders of a king, and does not fail
\* for an empty square.
C26_AttackersAndDefenders ==
    lastCall.fn \in {"show_attacked", "utils.show_attacked"} =>
        /\ lastCall.raised = "none"
        /\ {lastCall.arrows[i] : i \in 1..Len(lastCall.arrows)}
               = ExpectedAttacked(position, lastCall.square)
        /\ Len(lastCall.arrows) = Cardinality(ExpectedAttacked(position, lastCall.square))

\* C27: add_scene puts exactly one Scene at the end of the video's list and
\* keeps the Scenes before it as they were and in their order; the new Scene
\* has the video's voice, its output directory and the puzzle's orientation,
\* and it is the Scene returned.  The other video is not touched.
C27_AddSceneAppendsOne ==
    [][lastOp'.kind = "append" =>
          LET k == lastOp'.video
              before == videos[k].scenes
              after == videos'[k].scenes
              new == after[Len(after)]
          IN /\ Len(after) = Len(before) + 1
             /\ SubSeq(after, 1, Len(before)) = before
             /\ new.narration.voice_id = videos[k].voice_id
             /\ new.output_dir = videos[k].output_dir
             /\ new.orientation = orientation(videos[k].puzzle)
             /\ lastOp'.returned = new
             /\ [videos' EXCEPT ![k].scenes = before] = videos]_vars

\* C27 happens: a Scene has been added to a video that had a different one
C27_Witness ==
    /\ lastOp.kind = "append"
    /\ Len(videos[lastOp.video].scenes) = 2
    /\ videos[lastOp.video].scenes[1] # videos[lastOp.video].scenes[2]

\* the calls of the last generate() that end a Scene.generate: the loads of a
\* scene clip, in the order made
RECURSIVE SceneReturns(_)
SceneReturns(n) ==
    IF n = 0 THEN <<>>
    ELSE LET c == last.calls[n] IN
         IF c.kind = "load" /\ c.args = [class |-> "VideoFileClip"]
                            /\ c.path # video_path(video)
         THEN Append(SceneReturns(n - 1), n)
         ELSE SceneReturns(n - 1)

\* C28: a generate() that finds no final artifact generates the scenes one
\* after the other in list order, each once: nothing is done for a scene before
\* the scene before it has returned, and the clips and the narration track of
\* the artifact are in list order.
C28_ScenesInListOrder ==
    (last.happened /\ ~last.existed) =>
        LET returns == SceneReturns(Len(last.calls))
            own(i) == {audio_path(video.scenes[i].narration),
                       BoardClipPath(video.scenes[i]), SceneVideoPath(video.scenes[i])}
        IN /\ Len(returns) <= Len(video.scenes)
           /\ \A i \in 1..Len(returns) :
                  /\ last.calls[returns[i]].path = SceneVideoPath(video.scenes[i])
                  /\ \A j \in 1..returns[i] :
                        (i = 1 \/ j > returns[i - 1]) => last.calls[j].path \in own(i)
           /\ last.returned =>
                  /\ Len(returns) = Len(video.scenes)
                  /\ LET final == videoFiles[video_path(video)] IN
                       /\ Len(final.clips) = Len(video.scenes)
                       /\ \A i \in 1..Len(video.scenes) :
                             /\ final.clips[i] = videoFiles[SceneVideoPath(video.scenes[i])]
                             /\ final.narration_audio[i] = final.clips[i].audio

\* C28 happens: a video of two scenes has been built and returned
C28_Witness ==
    /\ last.happened /\ ~last.existed /\ last.returned
    /\ Len(video.scenes) = 2
    /\ Len(SceneReturns(Len(last.calls))) = 2

\* C29: in a built artifact the background music is repeated and cut to the
\* duration of the narration track, and the audio of the artifact, its video
\* and the scene clips together all last the same time, for a background
\* track shorter or longer than the narration.
C29_MusicFitsNarration ==
    lastMix.happened =>
        LET total == SumDurations(lastMix.durations) IN
        /\ lastMix.final.background_music.duration = total
        /\ lastMix.final.background_music.material >= total
        /\ lastMix.final.audio.duration = total
        /\ lastMix.final.duration = total

\* C29 happens: two clips that together last longer than the music, so that
\* the music is repeated and the last repetition cut
C29_Witness ==
    /\ lastMix.happened
    /\ Len(lastMix.durations) = 2
    /\ lastMix.music < SumDurations(lastMix.durations)
    /\ SumDurations(lastMix.durations) % lastMix.music # 0

\* C37: pgn() returns a serialization for every arrow between two squares of
\* the board, in every color; it never raises.
C37_PgnTotal == lastPgn.happened => lastPgn.raised = "none"

\* C38: when pgn() returns two segments, the row and the column of the
\* intermediate square are both in 0..7.
C38_IntermediateOnBoard ==
    (lastPgn.happened /\ lastPgn.raised = "none" /\ Len(lastPgn.text) = 10) =>
        /\ intermediate_row(lastPgn.arrow) \in 0..7
        /\ intermediate_col(lastPgn.arrow) \in 0..7

\* C39: an annotation that is not knight-shaped serializes as one segment:
\* the color letter, the name of the start square, the name of the end square.
C39_OtherShapesOneSegment ==
    (lastPgn.happened /\ ~KnightShaped(lastPgn.arrow)) =>
        /\ lastPgn.raised = "none"
        /\ lastPgn.text = <<ColorLetter(lastPgn.arrow.color)>>
                              \o SQUARE_NAMES[lastPgn.arrow.tail]
                              \o SQUARE_NAMES[lastPgn.arrow.head]

\* C32: with scopes exited innermost first, the move stack of the board is
\* always the stack from before the outermost open scope followed by the
\* moves of the open scopes in entry order, no exit raises, and after an exit
\* the board is what it was just before the matching entry.
C32_NestedScopesAreAStack ==
    /\ exc = "none"
    /\ scopes # <<>> =>
          board.move_stack = scopes[1].snap.move_stack
                                \o [i \in 1..Len(scopes) |-> scopes[i].move]
    /\ \A i \in 1..Len(scopes) - 1 : scopes[i + 1].snap = push(scopes[i].snap, scopes[i].move)
    /\ lastExit.happened =>
          /\ ~lastExit.raised
          /\ board = lastExit.snap
          /\ lastExit.reverted = <<lastExit.move>>

\* C32 happens: the inner of two scopes, entered on a board with a move
\* already played, has exited and the outer one is still open
C32_Witness ==
    /\ lastExit.happened
    /\ Len(scopes) = 1
    /\ scopes[1].snap.move_stack # <<>>
    /\ board = push(scopes[1].snap, scopes[1].move)

\* C33: a scope exit on a board with an empty move stack raises and leaves
\* the board as it is; the error propagates.
C33_ExitOnEmptyStackRaises ==
    [][(lastExit'.happened /\ Len(scopes') < Len(scopes) /\ board.move_stack = <<>>)
          => /\ lastExit'.raised
             /\ exc' = "IndexError"
             /\ board' = board]_vars

\* C33 happens: the block reverted the move itself and the scope has exited
\* on the empty move stack
C33_Witness ==
    /\ lastExit.happened /\ lastExit.raised
    /\ lastExit.depthBefore = 0
    /\ lastExit.excBefore = "none"
    /\ board.move_stack = <<>>

====
